---- MODULE Spec2Model ----
(***************************************************************************)
(* Model of the request orchestration pipeline of llm_home_assistant:      *)
(* call_model.py (authorization gate, action merge, concurrency grouping,  *)
(* response cache, call_model_wrapper and _execute_tool_call).             *)
(*                                                                         *)
(* Python values are represented as follows.                               *)
(*   entity_id   [kind, ids]: kind "none" (None or key absent), "str" (one *)
(*               id in ids[1]) or "list" (ids is the list).                *)
(*   data        [p, eid]: p stands for the parameters other than          *)
(*               entity_id (0: none), eid is the value under the           *)
(*               "entity_id" key (kind "none": key absent).                *)
(*   action      [domain, service, entity_id, data]; a missing domain or   *)
(*               service is "".                                            *)
(*   allow_cfg   [kind, domains, services, entities]: kind "none" (None)   *)
(*               or "dict"; each field is [k, v] with k "absent" (no such  *)
(*               key), "none" (None) or "list" (v is the list).            *)
(***************************************************************************)
EXTENDS Integers, Sequences, FiniteSets, TLC

VARIABLES
    allow_cfg,          \* hass.data[DOMAIN]["allow_cfg"]
    api_key,            \* hass.data[DOMAIN]["openai_api_key"] is set
    cache,              \* _RESPONSE_CACHE, least recently used first
    now,                \* time.monotonic(), in seconds
    pc,                 \* position of call_model_wrapper
    path,               \* "audio" when audio_data is not None, else "text"
    c_key,              \* c_key, the response cache key of a text run
    reply,              \* reply of the planner or of the cache
    cache_hit,          \* response_cache_hit
    actions,            \* merge_actions(raw_actions)
    action_groups,      \* _build_action_groups(actions)
    gi,                 \* index of the group being executed
    tasks,              \* per member of the group: state of its _execute_tool_call
    all_exec_results,   \* all_exec_results
    backend,            \* hass.services.async_call invocations of this run
    log,                \* log entries handed to write_log_entry in this run
    runs,               \* number of call_model_wrapper calls started
    fin,                \* argument/result pair of the pure function under check
    fout

vars == <<allow_cfg, api_key, cache, now, pc, path, c_key, reply, cache_hit, actions,
          action_groups, gi, tasks, all_exec_results, backend, log, runs,
          fin, fout>>

-----------------------------------------------------------------------------
(* Python values *)

NoneId == [kind |-> "none", ids |-> <<>>]

StrId(e) == [kind |-> "str", ids |-> <<e>>]

ListId(s) == [kind |-> "list", ids |-> s]

\* bool(entity_id): None, "" and [] are falsy
Truthy(eid) ==
    CASE eid.kind = "none" -> FALSE
      [] eid.kind = "str"  -> eid.ids[1] # ""
      [] eid.kind = "list" -> Len(eid.ids) > 0

\* x in s, for a Python list s
InSeq(x, s) == \E i \in 1..Len(s) : s[i] = x

SeqToSet(s) == {s[i] : i \in 1..Len(s)}

AbsentF == [k |-> "absent", v |-> <<>>]

NoneF == [k |-> "none", v |-> <<>>]

ListF(s) == [k |-> "list", v |-> s]

\* bool(allow.get(field)): an absent key, None and [] are falsy
FieldTruthy(f) == f.k = "list" /\ Len(f.v) > 0

CfgNone == [kind |-> "none", domains |-> AbsentF, services |-> AbsentF,
            entities |-> AbsentF]

CfgDict(d, s, e) == [kind |-> "dict", domains |-> d, services |-> s,
                     entities |-> e]

\* fault: a config counts as given only when it has a services key
AllowTruthy_services(allow) ==
    allow.kind = "dict" /\ allow.services.k # "absent"

\* bool(allow): None and {} are falsy
AllowTruthy(allow) ==
    /\ allow.kind = "dict"
    /\ \/ allow.domains.k # "absent"
       \/ allow.services.k # "absent"
       \/ allow.entities.k # "absent"

EmptyData == [p |-> 0, eid |-> NoneId]

\* bool(data): {} is falsy
DataTruthy(d) == d.p # 0 \/ d.eid.kind # "none"

\* f"{domain}.{service}"
SvcName(domain, service) == domain \o "." \o service

-----------------------------------------------------------------------------
(* Authorization gate *)

\* fault: fail-open, the services list is enforced only when it is given
_is_allowed_open(allow, domain, service, entity_id) ==
    IF ~AllowTruthy(allow) THEN TRUE
    ELSE IF FieldTruthy(allow.domains) /\ ~InSeq(domain, allow.domains.v)
    THEN FALSE
    ELSE IF FieldTruthy(allow.services)
            /\ ~InSeq(SvcName(domain, service), allow.services.v)
    THEN FALSE
    ELSE IF FieldTruthy(allow.entities) /\ Truthy(entity_id)
    THEN \A i \in 1..Len(entity_id.ids) :
            InSeq(entity_id.ids[i], allow.entities.v)
    ELSE TRUE

\* fault: one allowed id of a list is enough
_is_allowed_any(allow, domain, service, entity_id) ==
    IF ~AllowTruthy(allow) THEN TRUE
    ELSE IF FieldTruthy(allow.domains) /\ ~InSeq(domain, allow.domains.v)
    THEN FALSE
    ELSE IF ~FieldTruthy(allow.services) THEN FALSE
    ELSE IF ~InSeq(SvcName(domain, service), allow.services.v) THEN FALSE
    ELSE IF FieldTruthy(allow.entities) /\ Truthy(entity_id)
    THEN \E i \in 1..Len(entity_id.ids) :
            InSeq(entity_id.ids[i], allow.entities.v)
    ELSE TRUE

_is_allowed(allow, domain, service, entity_id) ==
    IF ~AllowTruthy(allow) THEN TRUE
    ELSE IF FieldTruthy(allow.domains) /\ ~InSeq(domain, allow.domains.v)
    THEN FALSE
    ELSE IF ~FieldTruthy(allow.services) THEN FALSE
    ELSE IF ~InSeq(SvcName(domain, service), allow.services.v) THEN FALSE
    ELSE IF FieldTruthy(allow.entities) /\ Truthy(entity_id)
    THEN \A i \in 1..Len(entity_id.ids) :
            InSeq(entity_id.ids[i], allow.entities.v)
    ELSE TRUE

-----------------------------------------------------------------------------
(* Action normalizer *)

\* fault: the entity_id key of data is part of the merge key
DataJson_all(d) ==
    (IF d.p = 0 THEN "{}" ELSE "{\"brightness\": " \o ToString(d.p) \o "}")
    \o (IF d.eid.kind = "none" THEN "" ELSE "+entity_id")

\* json.dumps(data_for_key, sort_keys=True): data without its entity_id key
DataJson(d) == IF d.p = 0 THEN "{}" ELSE "{\"brightness\": " \o ToString(d.p) \o "}"

\* the merge key of an action
MergeKey(a) == SvcName(a.domain, a.service) \o ":" \o DataJson(a.data)

\* position of key k in the insertion-ordered dict g, 0 when absent
KeyIndex(g, k) ==
    IF \E i \in 1..Len(g) : g[i].key = k
    THEN CHOOSE i \in 1..Len(g) : g[i].key = k
    ELSE 0

RECURSIVE AppendNew(_, _)
\* append the ids of s that are not yet in eids, in order
AppendNew(eids, s) ==
    IF s = <<>> THEN eids
    ELSE AppendNew(IF InSeq(Head(s), eids) THEN eids ELSE Append(eids, Head(s)),
                   Tail(s))

\* fault: a new key goes to the front of the order
MergeStep_front(g, a) ==
    LET k  == MergeKey(a)
        g1 == IF KeyIndex(g, k) = 0
              THEN <<[key |-> k, domain |-> a.domain,
                      service |-> a.service, data |-> a.data,
                      eids |-> <<>>]>> \o g
              ELSE g
        i  == KeyIndex(g1, k)
    IN  IF Truthy(a.entity_id)
        THEN [g1 EXCEPT ![i].eids = AppendNew(@, a.entity_id.ids)]
        ELSE g1

\* one iteration of the loop over the actions: groups after the action
MergeStep(g, a) ==
    LET k  == MergeKey(a)
        g1 == IF KeyIndex(g, k) = 0
              THEN Append(g, [key |-> k, domain |-> a.domain,
                              service |-> a.service, data |-> a.data,
                              eids |-> <<>>])
              ELSE g
        i  == KeyIndex(g1, k)
    IN  IF Truthy(a.entity_id)
        THEN [g1 EXCEPT ![i].eids = AppendNew(@, a.entity_id.ids)]
        ELSE g1

RECURSIVE MergeFold(_, _)
MergeFold(g, as) ==
    IF as = <<>> THEN g ELSE MergeFold(MergeStep(g, Head(as)), Tail(as))

\* fault: the targets of a group are always emitted as a list
MergedAction_list(g) ==
    [domain |-> g.domain, service |-> g.service, data |-> g.data,
     entity_id |-> IF Len(g.eids) >= 1 THEN ListId(g.eids) ELSE NoneId]

\* the merged action of one group
MergedAction(g) ==
    [domain |-> g.domain, service |-> g.service, data |-> g.data,
     entity_id |-> IF Len(g.eids) = 1 THEN StrId(g.eids[1])
                   ELSE IF Len(g.eids) > 1 THEN ListId(g.eids)
                   ELSE NoneId]

merge_actions(as) ==
    IF as = <<>> THEN as
    ELSE LET g == MergeFold(<<>>, as)
         IN  [i \in 1..Len(g) |-> MergedAction(g[i])]

-----------------------------------------------------------------------------
(* Concurrency grouper *)

\* fault: a group of an action without target takes further members
FirstDisjoint_any(groups, es) ==
    LET ok(i) == groups[i].ents \cap es = {}
    IN  IF \E i \in 1..Len(groups) : ok(i)
        THEN CHOOSE i \in 1..Len(groups) :
                ok(i) /\ \A j \in 1..(i - 1) : ~ok(j)
        ELSE 0

\* index of the first group with a non-empty entity set disjoint from es, 0 if none
FirstDisjoint(groups, es) ==
    LET ok(i) == groups[i].ents # {} /\ groups[i].ents \cap es = {}
    IN  IF \E i \in 1..Len(groups) : ok(i)
        THEN CHOOSE i \in 1..Len(groups) :
                ok(i) /\ \A j \in 1..(i - 1) : ~ok(j)
        ELSE 0

\* one iteration of the loop over the actions
GroupStep(groups, a) ==
    IF ~Truthy(a.entity_id)
    THEN Append(groups, [ents |-> {}, acts |-> <<a>>])
    ELSE LET es == SeqToSet(a.entity_id.ids)
             i  == FirstDisjoint(groups, es)
         IN  IF i # 0
             THEN [groups EXCEPT ![i] = [ents |-> @.ents \cup es,
                                         acts |-> Append(@.acts, a)]]
             ELSE Append(groups, [ents |-> es, acts |-> <<a>>])

RECURSIVE GroupFold(_, _)
GroupFold(groups, as) ==
    IF as = <<>> THEN groups
    ELSE GroupFold(GroupStep(groups, Head(as)), Tail(as))

_build_action_groups(as) ==
    LET groups == GroupFold(<<>>, as)
    IN  [i \in 1..Len(groups) |-> groups[i].acts]

-----------------------------------------------------------------------------
(* Response cache *)

_CACHE_TTL == 60

_CACHE_MAX == 50

_CACHEABLE_SERVICES ==
    {"light.turn_on", "light.turn_off", "switch.turn_on", "switch.turn_off",
     "cover.open_cover", "cover.close_cover", "cover.set_cover_position"}

\* fault: only the first action is looked at
_all_cacheable_first(as) ==
    as = <<>> \/ SvcName(as[1].domain, as[1].service) \in _CACHEABLE_SERVICES

_all_cacheable(as) ==
    \A i \in 1..Len(as) : SvcName(as[i].domain, as[i].service) \in _CACHEABLE_SERVICES

\* position of key in the OrderedDict c, 0 when absent
CacheIndex(c, key) ==
    IF \E i \in 1..Len(c) : c[i].key = key
    THEN CHOOSE i \in 1..Len(c) : c[i].key = key
    ELSE 0

\* c without its i-th entry
RemoveAt(c, i) == SubSeq(c, 1, i - 1) \o SubSeq(c, i + 1, Len(c))

\* fault: the entry keeps its place
MoveToEnd_stay(c, i) == c

\* OrderedDict.move_to_end(key) for the entry at position i
MoveToEnd(c, i) == Append(RemoveAt(c, i), c[i])

\* fault: the age of the entry is not looked at
_cache_get_stale(c, key, t) ==
    LET i == CacheIndex(c, key)
    IN  IF i = 0 THEN [cache |-> c, hit |-> FALSE, data |-> <<>>]
        ELSE [cache |-> MoveToEnd(c, i), hit |-> TRUE, data |-> c[i].data]

\* fault: an entry expires as soon as its age reaches the TTL
_cache_get_early(c, key, t) ==
    LET i == CacheIndex(c, key)
    IN  IF i = 0 THEN [cache |-> c, hit |-> FALSE, data |-> <<>>]
        ELSE IF t - c[i].ts >= _CACHE_TTL
        THEN [cache |-> RemoveAt(c, i), hit |-> FALSE, data |-> <<>>]
        ELSE [cache |-> MoveToEnd(c, i), hit |-> TRUE, data |-> c[i].data]

\* _cache_get at time t: the cache afterwards and the value returned
_cache_get(c, key, t) ==
    LET i == CacheIndex(c, key)
    IN  IF i = 0 THEN [cache |-> c, hit |-> FALSE, data |-> <<>>]
        ELSE IF t - c[i].ts > _CACHE_TTL
        THEN [cache |-> RemoveAt(c, i), hit |-> FALSE, data |-> <<>>]
        ELSE [cache |-> MoveToEnd(c, i), hit |-> TRUE, data |-> c[i].data]

\* fault: the eviction starts one entry late
EvictOldest_late(c) == IF Len(c) > _CACHE_MAX + 1 THEN Tail(c) ELSE c

RECURSIVE EvictOldest(_)
\* while len(_RESPONSE_CACHE) > _CACHE_MAX: popitem(last=False)
EvictOldest(c) == IF Len(c) > _CACHE_MAX THEN EvictOldest(Tail(c)) ELSE c

\* _cache_put at time t: the cache afterwards
_cache_put(c, key, data, t) ==
    LET i == CacheIndex(c, key)
        e == [key |-> key, ts |-> t, data |-> data]
    IN  EvictOldest(IF i = 0 THEN Append(c, e) ELSE MoveToEnd([c EXCEPT ![i] = e], i))

\* chr.lower() for the letters of the texts and formats of the model
LowerChar(c) ==
    CASE c = "A" -> "a" [] c = "F" -> "f" [] c = "L" -> "l" [] c = "N" -> "n"
      [] c = "O" -> "o" [] c = "P" -> "p" [] c = "V" -> "v" [] c = "W" -> "w"
      [] OTHER -> c

\* str.lower()
Lower(s) == [i \in 1..Len(s) |-> LowerChar(s[i])]

IsSpace(c) == c \in {" ", "\t", "\n", "\r"}

RECURSIVE LStrip(_)
LStrip(s) == IF s # <<>> /\ IsSpace(Head(s)) THEN LStrip(Tail(s)) ELSE s

RECURSIVE RStrip(_)
RStrip(s) ==
    IF s # <<>> /\ IsSpace(s[Len(s)]) THEN RStrip(SubSeq(s, 1, Len(s) - 1)) ELSE s

\* str.strip()
Strip(s) == RStrip(LStrip(s))

\* fault: the fingerprint does not depend on the config
_cfg_hash_const(allow) == CfgNone

\* _cfg_hash: "" for None and {}, else the sorted-key JSON text of the config,
\* which is one-to-one on the configs of the model. "" is written CfgNone.
_cfg_hash(allow) == IF ~AllowTruthy(allow) THEN CfgNone ELSE allow

\* fault: the text is hashed as it was typed
_cache_key_exact(text, model_name, cfg_hash) ==
    [raw |-> Strip(text) \o model_name, cfg |-> cfg_hash]

\* _cache_key: the SHA-256 prefix is taken as one-to-one on the hashed text
\* raw = text.strip().lower() + (model_name or "") + cfg_hash; model_name is a
\* character sequence, <<>> for None
_cache_key(text, model_name, cfg_hash) ==
    [raw |-> Lower(Strip(text)) \o model_name, cfg |-> cfg_hash]

-----------------------------------------------------------------------------
(* _execute_tool_call *)

\* the entity ids the backend knows: hass.states.get(eid) is not None
hass_states == {"light.a", "light.b", "lock.c"}

\* fault: no id is looked up
SelectKnown_all(s) == s

RECURSIVE SelectKnown(_)
\* [eid for eid in entity_id if hass.states.get(eid) is not None]
SelectKnown(s) ==
    IF s = <<>> THEN <<>>
    ELSE IF Head(s) \in hass_states THEN <<Head(s)>> \o SelectKnown(Tail(s))
    ELSE SelectKnown(Tail(s))

\* the result dict as initialised; error "" stands for None
NewResult(a) ==
    [domain |-> a.domain, service |-> a.service, entity_id |-> a.entity_id,
     allowed |-> FALSE, valid_entities |-> <<>>, dropped_entities |-> {},
     success |-> FALSE, error |-> ""]

\* data.setdefault(ATTR_ENTITY_ID, entity_id)
SetDefault(d, eid) == IF d.eid.kind = "none" THEN [d EXCEPT !.eid = eid] ELSE d

\* fault: the allowlist is not consulted for a plan served from the cache
GateDenies_cached(allow, domain, service, entity_id) ==
    ~cache_hit /\ ~_is_allowed(allow, domain, service, entity_id)

\* the allowlist test that blocks an action
GateDenies(allow, domain, service, entity_id) ==
    ~_is_allowed(allow, domain, service, entity_id)

\* _execute_tool_call up to its await of hass.services.async_call: the result
\* so far, whether the backend is called, and the data of the call
_execute_tool_call(a, allow) ==
    LET r0   == NewResult(a)
        eid  == a.entity_id
        list == eid.kind = "list"
    IN  IF a.domain = "" \/ a.service = ""
        THEN [result |-> [r0 EXCEPT !.error = "missing domain or service"],
              dispatch |-> FALSE, data |-> a.data]
        ELSE IF Truthy(eid) /\ list /\ SelectKnown(eid.ids) = <<>>
        THEN [result |-> [r0 EXCEPT !.dropped_entities = SeqToSet(eid.ids),
                                    !.error = "no valid entity_ids"],
              dispatch |-> FALSE, data |-> a.data]
        ELSE IF Truthy(eid) /\ ~list /\ eid.ids[1] \notin hass_states
        THEN [result |-> [r0 EXCEPT !.dropped_entities = {eid.ids[1]},
                                    !.error = "unknown entity_id: " \o eid.ids[1]],
              dispatch |-> FALSE, data |-> a.data]
        ELSE LET valid == IF ~Truthy(eid) THEN <<>>
                          ELSE IF list THEN SelectKnown(eid.ids) ELSE eid.ids
                 eid1  == IF Truthy(eid) /\ list
                          THEN IF Len(valid) > 1 THEN ListId(valid)
                               ELSE StrId(valid[1])
                          ELSE eid
                 data1 == IF Truthy(eid) THEN SetDefault(a.data, eid1) ELSE a.data
                 r1    == [r0 EXCEPT
                             !.entity_id = eid1,
                             !.valid_entities = valid,
                             !.dropped_entities =
                                 IF Truthy(eid) /\ list
                                 THEN SeqToSet(eid.ids) \ SeqToSet(valid)
                                 ELSE {}]
             IN  IF GateDenies(allow, a.domain, a.service, eid1)
                 THEN [result |-> [r1 EXCEPT !.error = "blocked by allowlist"],
                       dispatch |-> FALSE, data |-> data1]
                 ELSE [result |-> [r1 EXCEPT !.allowed = TRUE],
                       dispatch |-> TRUE, data |-> data1]

-----------------------------------------------------------------------------
(* Bounds and input sets *)

\* actions per planner reply, in Spec and in SpecExec
MaxActions == 2

MaxExecActions == 3

\* call_model_wrapper calls per behaviour
MaxRuns == 2

\* the clock advances in steps of TickStep up to MaxTime
TickStep == 30

MaxTime == 90

Act(d, s, e, dt) == [domain |-> d, service |-> s, entity_id |-> e, data |-> dt]

\* the actions a planner reply is made of: cacheable and not, known and
\* unknown targets, scalar and list targets, an entity_id key inside data,
\* a missing domain, no target
ActionPool ==
    { Act("light", "turn_on", StrId("light.a"), EmptyData),
      Act("light", "turn_off", StrId("light.b"),
          [p |-> 0, eid |-> StrId("light.a")]),
      Act("light", "turn_on", ListId(<<"light.b", "light.x">>), EmptyData),
      Act("lock", "unlock", StrId("light.a"), [p |-> 1, eid |-> NoneId]),
      Act("", "turn_on", NoneId, EmptyData),
      Act("light", "turn_off", StrId("light.x"), EmptyData) }

SeqsUpTo(S, n) == UNION {[1..k -> S] : k \in 0..n}

\* a Plan as the planner clients return it
Plan(as) == [actions |-> as, explanation |-> "ok"]

\* the actions of the replies of Spec
SmallPool ==
    { Act("light", "turn_on", StrId("light.a"), EmptyData),
      Act("light", "turn_off", StrId("light.b"),
          [p |-> 0, eid |-> StrId("light.a")]),
      Act("light", "turn_on", ListId(<<"light.b", "light.x">>),
          [p |-> 1, eid |-> NoneId]),
      Act("lock", "unlock", StrId("light.a"), [p |-> 1, eid |-> NoneId]) }

Replies == {Plan(as) : as \in SeqsUpTo(SmallPool, MaxActions)}

WideReplies == {Plan(as) : as \in SeqsUpTo(ActionPool, MaxExecActions)}

AllowConfigs ==
    { CfgNone,
      CfgDict(AbsentF, AbsentF, AbsentF),
      CfgDict(ListF(<<"light">>), AbsentF, AbsentF),
      CfgDict(AbsentF, ListF(<<>>), ListF(<<"light.a">>)),
      CfgDict(AbsentF, ListF(<<"light.turn_on", "light.turn_off">>),
              ListF(<<"light.a", "light.b">>)),
      CfgDict(ListF(<<"light">>), ListF(<<"light.turn_on">>),
              ListF(<<"light.a">>)) }

M_openai == <<"o", "p", "e", "n", "a", "i">>

M_gpt4o == <<"g", "p", "t", "-", "4", "o">>

M_llama == <<"l", "l", "a", "m", "a">>

\* the model names call_model_wrapper hands to the OpenAI handler
HandledModels ==
    { M_openai, M_gpt4o, M_gpt4o \o <<"-", "m", "i", "n", "i">>,
      <<"g", "p", "t", "-", "5", "-", "m", "i", "n", "i">>,
      M_gpt4o \o <<"-", "a", "u", "d", "i", "o", "-", "p", "r", "e", "v", "i", "e", "w">> }

SUPPORTED_FORMATS ==
    { <<"w", "a", "v">>, <<"m", "p", "3">>, <<"f", "l", "a", "c">>,
      <<"o", "p", "u", "s">>, <<"p", "c", "m", "1", "6">>,
      <<"w", "e", "b", "m">>, <<"o", "g", "g">> }

MAX_AUDIO_SIZE == 15 * 1024 * 1024

TextReq(t, m) == [type |-> "text", text |-> t, model |-> m, size |-> 0, fmt |-> <<>>]

\* audio_data is represented by its length
AudioReq(n, f) == [type |-> "audio", text |-> <<>>, model |-> M_gpt4o, size |-> n,
                   fmt |-> f]

Requests ==
    { TextReq(<<"O", "n">>, M_gpt4o), TextReq(<<"o", "n", " ">>, M_gpt4o),
      TextReq(<<"o", "n">>, M_openai), TextReq(<<"o", "n">>, M_llama),
      AudioReq(1, <<".", "W", "A", "V">>), AudioReq(1, <<>>),
      AudioReq(0, <<"w", "a", "v">>), AudioReq(1, <<"e", "x", "e">>),
      AudioReq(MAX_AUDIO_SIZE + 1, <<"m", "p", "3">>) }

-----------------------------------------------------------------------------
(* audio_utils *)

RECURSIVE LStripDots(_)
\* fmt.lstrip(".")
LStripDots(s) == IF s # <<>> /\ Head(s) = "." THEN LStripDots(Tail(s)) ELSE s

normalize_format(fmt) == Lower(LStripDots(fmt))

\* fault: the size of the data is not looked at
validate_audio_any_size(size, fmt) ==
    IF normalize_format(fmt) \notin SUPPORTED_FORMATS
    THEN "Unsupported audio format"
    ELSE ""

\* validate_audio: the message of the ValueError raised, "" when none is
validate_audio(size, fmt) ==
    IF size = 0 THEN "Audio data is empty"
    ELSE IF normalize_format(fmt) \notin SUPPORTED_FORMATS
    THEN "Unsupported audio format"
    ELSE IF size > MAX_AUDIO_SIZE THEN "Audio file too large"
    ELSE ""

-----------------------------------------------------------------------------
(* call_model_wrapper *)

NoPlan == [actions |-> <<>>, explanation |-> ""]

NoKey == _cache_key(<<>>, <<>>, CfgNone)

NoFn == [fn |-> "none"]

\* one entry handed to write_log_entry
LogEntry(err, results) == [error |-> err, execution |-> results]

\* the _execute_tool_call coroutines of one group, none started
InitTasks(group) ==
    [i \in 1..Len(group) |->
        [st |-> "pending", result |-> NewResult(group[i]), data |-> group[i].data]]

\* "openai" is a handler type: model_name becomes None, here <<>>
ModelName(m) == IF m = M_openai THEN <<>> ELSE m

\* the key of the text path: _cache_key(text, model_name, _cfg_hash(allow_cfg))
RunKey(r, allow) == _cache_key(r.text, ModelName(r.model), _cfg_hash(allow))

\* a run that ends before a reply exists: the error is logged, then return
Abort(r, err) ==
    /\ pc' = "logging"
    /\ path' = r.type
    /\ c_key' = NoKey
    /\ runs' = runs + 1
    /\ log' = <<LogEntry(err, <<>>)>>
    /\ UNCHANGED <<allow_cfg, api_key, cache, now, reply, cache_hit, actions,
                   action_groups, gi, tasks, all_exec_results, backend, fin, fout>>

\* lines 465-517 up to the first await: merge, group, then the first group
\* starts, or, with no group at all, the log entry is written
Execute(rep, hit) ==
    LET merged == merge_actions(rep.actions)
        groups == _build_action_groups(merged)
    IN  /\ reply' = rep
        /\ cache_hit' = hit
        /\ actions' = merged
        /\ action_groups' = groups
        /\ all_exec_results' = <<>>
        /\ backend' = <<>>
        /\ IF groups = <<>>
           THEN /\ pc' = "logging"
                /\ gi' = 0
                /\ tasks' = <<>>
                /\ log' = <<LogEntry("", <<>>)>>
           ELSE /\ pc' = "exec"
                /\ gi' = 1
                /\ tasks' = InitTasks(groups[1])
                /\ log' = <<>>

\* fault: the run goes on to the text path without looking at the key
StartNoKey_planning ==
    /\ pc = "idle" /\ runs < MaxRuns
    /\ ~api_key
    /\ \E r \in Requests :
        /\ r.model \in HandledModels
        /\ r.type = "text"
        /\ cache' = _cache_get(cache, RunKey(r, allow_cfg), now).cache
        /\ path' = "text"
        /\ c_key' = RunKey(r, allow_cfg)
        /\ pc' = "planning"
        /\ runs' = runs + 1
        /\ log' = <<>>
    /\ UNCHANGED <<allow_cfg, api_key, now, reply, cache_hit, actions,
                   action_groups, gi, tasks, all_exec_results, backend, fin, fout>>

\* no API key: lines 346-350
StartNoKey ==
    /\ pc = "idle" /\ runs < MaxRuns
    /\ ~api_key
    /\ \E r \in Requests : Abort(r, "no API key")

\* a model the OpenAI handler does not take: lines 353-357
StartUnsupported ==
    /\ pc = "idle" /\ runs < MaxRuns
    /\ api_key
    /\ \E r \in Requests :
        /\ r.model \notin HandledModels
        /\ Abort(r, "unsupported model")

\* request r on the audio path, validate_audio raises: lines 374-377 and
\* 427-436
StartAudioInvalidOf(r) ==
    /\ pc = "idle" /\ runs < MaxRuns
    /\ api_key
    /\ r.model \in HandledModels
    /\ r.type = "audio"
    /\ validate_audio(r.size, normalize_format(IF r.fmt = <<>> THEN <<"w", "a", "v">> ELSE r.fmt)) # ""
    /\ Abort(r, validate_audio(r.size, normalize_format(IF r.fmt = <<>> THEN <<"w", "a", "v">> ELSE r.fmt)))

StartAudioInvalid == \E r \in Requests : StartAudioInvalidOf(r)

\* request r on the audio path, the planner is awaited: lines 374-394
StartAudioOf(r) ==
    /\ pc = "idle" /\ runs < MaxRuns
    /\ api_key
    /\ r.model \in HandledModels
    /\ r.type = "audio"
    /\ validate_audio(r.size, normalize_format(IF r.fmt = <<>> THEN <<"w", "a", "v">> ELSE r.fmt)) = ""
    /\ path' = "audio"
    /\ c_key' = NoKey
    /\ pc' = "planning"
    /\ runs' = runs + 1
    /\ log' = <<>>
    /\ UNCHANGED <<allow_cfg, api_key, cache, now, reply, cache_hit, actions,
                   action_groups, gi, tasks, all_exec_results, backend, fin, fout>>

StartAudio == \E r \in Requests : StartAudioOf(r)

\* request r on the text path, response cache miss: lines 396-416; an
\* expired entry is removed
StartTextMissOf(r) ==
    /\ pc = "idle" /\ runs < MaxRuns
    /\ api_key
    /\ r.model \in HandledModels
    /\ r.type = "text"
    /\ ~_cache_get(cache, RunKey(r, allow_cfg), now).hit
    /\ cache' = _cache_get(cache, RunKey(r, allow_cfg), now).cache
    /\ path' = "text"
    /\ c_key' = RunKey(r, allow_cfg)
    /\ pc' = "planning"
    /\ runs' = runs + 1
    /\ log' = <<>>
    /\ UNCHANGED <<allow_cfg, api_key, now, reply, cache_hit, actions,
                   action_groups, gi, tasks, all_exec_results, backend, fin, fout>>

StartTextMiss == \E r \in Requests : StartTextMissOf(r)

\* request r on the text path, response cache hit: lines 400-404, then
\* 438-507 without an await
StartTextHitOf(r) ==
    /\ pc = "idle" /\ runs < MaxRuns
    /\ api_key
    /\ r.model \in HandledModels
    /\ r.type = "text"
    /\ _cache_get(cache, RunKey(r, allow_cfg), now).hit
    /\ cache' = _cache_get(cache, RunKey(r, allow_cfg), now).cache
    /\ path' = "text"
    /\ c_key' = RunKey(r, allow_cfg)
    /\ Execute(_cache_get(cache, RunKey(r, allow_cfg), now).data, TRUE)
    /\ runs' = runs + 1
    /\ UNCHANGED <<allow_cfg, api_key, now, fin, fout>>

StartTextHit == \E r \in Requests : StartTextHitOf(r)

\* whether the reply of a text-path miss is stored: lines 418-421
Storable(rep) == rep.actions # <<>> /\ _all_cacheable(rep.actions)

\* fault: the reply is stored whatever the path
PlannerReturnFrom_any(S) ==
    /\ pc = "planning"
    /\ \E rep \in S :
        /\ cache' = IF Storable(rep)
                    THEN _cache_put(cache, c_key, rep, now)
                    ELSE cache
        /\ Execute(rep, FALSE)
    /\ UNCHANGED <<allow_cfg, api_key, now, path, c_key, runs, fin, fout>>

\* the planner returns rep: lines 384-394 (audio), 408-425 (text), then 438-507
PlannerReturnFrom(S) ==
    /\ pc = "planning"
    /\ \E rep \in S :
        /\ cache' = IF path = "text" /\ Storable(rep)
                    THEN _cache_put(cache, c_key, rep, now)
                    ELSE cache
        /\ Execute(rep, FALSE)
    /\ UNCHANGED <<allow_cfg, api_key, now, path, c_key, runs, fin, fout>>

PlannerReturn == PlannerReturnFrom(Replies)

\* position in the raw actions of the action whose data object the merged
\* action a carries: the first one with the merge key of a
FirstWithKey(as, a) ==
    CHOOSE i \in 1..Len(as) :
        /\ MergeKey(as[i]) = MergeKey(a)
        /\ \A j \in 1..(i - 1) : MergeKey(as[j]) # MergeKey(a)

\* data.setdefault acts on the dict of the raw action when that dict is not
\* empty ("data or {}" makes a new dict only for an empty one): the reply
\* after _execute_tool_call has left d in the data of the merged action a
WriteBack(rep, a, d) ==
    IF DataTruthy(a.data)
    THEN [rep EXCEPT !.actions[FirstWithKey(rep.actions, a)].data = d]
    ELSE rep

\* the reply of a text run is the object the cache holds under c_key
SameObject(c, key, rep) ==
    LET i == CacheIndex(c, key)
    IN  IF path = "text" /\ i # 0 THEN [c EXCEPT ![i].data = rep] ELSE c

\* the next _execute_tool_call of the group runs up to its await: lines 216-294
ToolCallStart ==
    /\ pc = "exec"
    /\ \E i \in 1..Len(tasks) :
        /\ tasks[i].st = "pending"
        /\ \A j \in 1..(i - 1) : tasks[j].st # "pending"
        /\ LET a == action_groups[gi][i]
               x == _execute_tool_call(a, allow_cfg)
           IN  /\ reply' = WriteBack(reply, a, x.data)
               /\ cache' = SameObject(cache, c_key, reply')
               /\ IF x.dispatch
                  THEN /\ tasks' = [tasks EXCEPT ![i] = [st |-> "inflight",
                                        result |-> x.result, data |-> x.data]]
                       /\ backend' = Append(backend,
                             [gi |-> gi, ti |-> i, domain |-> a.domain,
                              service |-> a.service, data |-> x.data,
                              done |-> FALSE, raised |-> FALSE])
                  ELSE /\ tasks' = [tasks EXCEPT ![i] = [st |-> "done",
                                        result |-> x.result, data |-> x.data]]
                       /\ backend' = backend
    /\ UNCHANGED <<allow_cfg, api_key, now, pc, path, c_key, cache_hit,
                   actions, action_groups, gi, all_exec_results, log, runs,
                   fin, fout>>

\* fault: the exception is swallowed and the call is reported as a success
Returned_swallow(r, ok) == [r EXCEPT !.success = TRUE]

\* the result after the await of async_call: success on return, the text of
\* the exception when it raises (lines 294-309)
Returned(r, ok) ==
    [r EXCEPT !.success = ok, !.error = IF ok THEN "" ELSE "exc"]

\* the backend call of the i-th member ends, ok or raising: lines 294-312
ToolCallFinish ==
    /\ pc = "exec"
    /\ \E i \in 1..Len(tasks), ok \in BOOLEAN :
        /\ tasks[i].st = "inflight"
        /\ tasks' = [tasks EXCEPT ![i].st = "done",
                                  ![i].result = Returned(@, ok)]
        /\ backend' = [k \in 1..Len(backend) |->
                          IF backend[k].gi = gi /\ backend[k].ti = i
                          THEN [backend[k] EXCEPT !.done = TRUE, !.raised = ~ok]
                          ELSE backend[k]]
    /\ UNCHANGED <<allow_cfg, api_key, cache, now, pc, path, c_key, reply, cache_hit,
                   actions, action_groups, gi, all_exec_results, log, runs,
                   fin, fout>>

\* fault: the await returns with the first coroutine that has returned
GroupDone_first(ts) == \E i \in 1..Len(ts) : ts[i].st = "done"

\* the await of the group returns: the single coroutine, or asyncio.gather,
\* which returns when every coroutine has (lines 506-513)
GroupDone(ts) == \A i \in 1..Len(ts) : ts[i].st = "done"

\* every member of the group has returned: lines 505-513, the next group
GroupJoin ==
    /\ pc = "exec"
    /\ GroupDone(tasks)
    /\ gi < Len(action_groups)
    /\ all_exec_results' = all_exec_results \o [i \in 1..Len(tasks) |-> tasks[i].result]
    /\ gi' = gi + 1
    /\ tasks' = InitTasks(action_groups[gi + 1])
    /\ UNCHANGED <<allow_cfg, api_key, cache, now, pc, path, c_key, reply, cache_hit,
                   actions, action_groups, backend, log, runs, fin, fout>>

\* the last group has returned: lines 515-525, the log entry is handed over
LastJoin ==
    /\ pc = "exec"
    /\ GroupDone(tasks)
    /\ gi = Len(action_groups)
    /\ all_exec_results' = all_exec_results \o [i \in 1..Len(tasks) |-> tasks[i].result]
    /\ log' = <<LogEntry("", all_exec_results')>>
    /\ pc' = "logging"
    /\ tasks' = <<>>
    /\ UNCHANGED <<allow_cfg, api_key, cache, now, path, c_key, reply, cache_hit,
                   actions, action_groups, gi, backend, runs, fin, fout>>

\* write_log_entry has run in the executor; call_model_wrapper returns
LogWritten ==
    /\ pc = "logging"
    /\ pc' = "idle"
    /\ path' = "text"
    /\ c_key' = NoKey
    /\ reply' = NoPlan
    /\ cache_hit' = FALSE
    /\ actions' = <<>>
    /\ action_groups' = <<>>
    /\ gi' = 0
    /\ tasks' = <<>>
    /\ all_exec_results' = <<>>
    /\ backend' = <<>>
    /\ log' = <<>>
    /\ UNCHANGED <<allow_cfg, api_key, cache, now, runs, fin, fout>>

\* time passes between two runs
Tick ==
    /\ pc = "idle"
    /\ now + TickStep <= MaxTime
    /\ now' = now + TickStep
    /\ UNCHANGED <<allow_cfg, api_key, cache, pc, path, c_key, reply, cache_hit, actions,
                   action_groups, gi, tasks, all_exec_results, backend, log,
                   runs, fin, fout>>

Init ==
    /\ allow_cfg \in AllowConfigs
    /\ api_key \in BOOLEAN
    /\ cache = <<>>
    /\ now = 0
    /\ pc = "idle"
    /\ path = "text"
    /\ c_key = NoKey
    /\ reply = NoPlan
    /\ cache_hit = FALSE
    /\ actions = <<>>
    /\ action_groups = <<>>
    /\ gi = 0
    /\ tasks = <<>>
    /\ all_exec_results = <<>>
    /\ backend = <<>>
    /\ log = <<>>
    /\ runs = 0
    /\ fin = NoFn
    /\ fout = NoFn

Next ==
    \/ StartNoKey
    \/ StartUnsupported
    \/ StartAudioInvalid
    \/ StartAudio
    \/ StartTextMiss
    \/ StartTextHit
    \/ PlannerReturn
    \/ ToolCallStart
    \/ ToolCallFinish
    \/ GroupJoin
    \/ LastJoin
    \/ LogWritten
    \/ Tick

Spec == Init /\ [][Next]_vars

-----------------------------------------------------------------------------
(* One run from the await of the planner on, over a wider set of replies *)

PlannerReturnWide == PlannerReturnFrom(WideReplies)

\* the state of an audio run that awaits the planner
InitExec ==
    /\ allow_cfg \in AllowConfigs
    /\ api_key = TRUE
    /\ cache = <<>>
    /\ now = 0
    /\ pc = "planning"
    /\ path = "audio"
    /\ c_key = NoKey
    /\ reply = NoPlan
    /\ cache_hit = FALSE
    /\ actions = <<>>
    /\ action_groups = <<>>
    /\ gi = 0
    /\ tasks = <<>>
    /\ all_exec_results = <<>>
    /\ backend = <<>>
    /\ log = <<>>
    /\ runs = 1
    /\ fin = NoFn
    /\ fout = NoFn

NextExec ==
    \/ PlannerReturnWide
    \/ ToolCallStart
    \/ ToolCallFinish
    \/ GroupJoin
    \/ LastJoin
    \/ LogWritten

SpecExec == InitExec /\ [][NextExec]_vars

-----------------------------------------------------------------------------
(* The pure functions, applied to inputs drawn from bounded sets *)

\* length of the lists of an AllowConfig and of an entity_id list
MaxListLen == 2

\* actions handed to _build_action_groups
MaxGroupActions == 4

\* the orchestrator is idle while a pure function is under check
IdleVars ==
    /\ allow_cfg = CfgNone
    /\ api_key = TRUE
    /\ cache = <<>>
    /\ now = 0
    /\ pc = "idle"
    /\ path = "text"
    /\ c_key = NoKey
    /\ reply = NoPlan
    /\ cache_hit = FALSE
    /\ actions = <<>>
    /\ action_groups = <<>>
    /\ gi = 0
    /\ tasks = <<>>
    /\ all_exec_results = <<>>
    /\ backend = <<>>
    /\ log = <<>>
    /\ runs = 0

UnchangedRun ==
    UNCHANGED <<allow_cfg, api_key, cache, now, pc, path, c_key, reply, cache_hit,
                actions, action_groups, gi, tasks, all_exec_results, backend,
                log, runs>>

\* the values of one AllowConfig field over the items S
FieldValues(S) == {AbsentF, NoneF} \cup {ListF(l) : l \in SeqsUpTo(S, MaxListLen)}

GateConfigs ==
    {CfgNone} \cup
    { CfgDict(d, sv, e) :
        d \in FieldValues({"light", "lock"}),
        sv \in FieldValues({"light.turn_on", "lock.unlock"}),
        e \in FieldValues({"light.a", "light.b"}) }

GateEntityIds ==
    {NoneId, StrId(""), StrId("light.a"), StrId("light.b")}
    \cup {ListId(l) : l \in SeqsUpTo({"light.a", "light.b"}, MaxListLen)}

InitAllowed ==
    /\ IdleVars
    /\ fin \in [fn : {"_is_allowed"}, allow : GateConfigs,
                domain : {"light", "lock"}, service : {"turn_on", "unlock"},
                entity_id : GateEntityIds]
    /\ fout = [done |-> FALSE, v |-> FALSE]

EvalAllowed ==
    /\ ~fout.done
    /\ fout' = [done |-> TRUE,
                v |-> _is_allowed(fin.allow, fin.domain, fin.service, fin.entity_id)]
    /\ UNCHANGED fin
    /\ UnchangedRun

SpecAllowed == InitAllowed /\ [][EvalAllowed]_vars

\* the actions handed to the grouper: the targets are what it reads
GroupPool ==
    { Act("light", "turn_on", e, EmptyData) :
        e \in {NoneId, StrId(""), ListId(<<>>), StrId("light.a"), StrId("light.b"),
               StrId("lock.c"), ListId(<<"light.a", "light.b">>),
               ListId(<<"light.b", "lock.c">>), ListId(<<"light.a", "light.a">>)} }

InitGroups ==
    /\ IdleVars
    /\ fin \in [fn : {"_build_action_groups"},
                as : SeqsUpTo(GroupPool, MaxGroupActions)]
    /\ fout = [done |-> FALSE, v |-> <<>>]

EvalGroups ==
    /\ ~fout.done
    /\ fout' = [done |-> TRUE, v |-> _build_action_groups(fin.as)]
    /\ UNCHANGED fin
    /\ UnchangedRun

SpecGroups == InitGroups /\ [][EvalGroups]_vars

-----------------------------------------------------------------------------
(* The response cache under sequences of _cache_put and _cache_get *)

\* unique keys put into the cache
MaxKeys == 53

\* calls on keys that were put before, and gets of a key never put
MaxTouch == 1

\* times the clock passes the TTL of the entries put so far
MaxExpire == 1

\* the n-th unique key: the key of the text that reads n, no model, no config
KeyOf(n) == _cache_key(<<ToString(n)>>, <<>>, CfgNone)

CachedPlan == Plan(<<Act("light", "turn_on", StrId("light.a"), EmptyData)>>)

\* the entries a repeated call is made on: the least and the most recently used
TouchAt(c) == {i \in {1, Len(c)} : 1 <= i /\ i <= Len(c)}

UnchangedCacheEnv ==
    UNCHANGED <<allow_cfg, api_key, pc, path, c_key, reply, cache_hit,
                actions, action_groups, gi, tasks, all_exec_results, backend,
                log, runs>>

\* the record of the calls: key k was last put, or hit by a get, by the
\* call with number at
Used(used, k, at) == {u \in used : u.key # k} \cup {[key |-> k, at |-> at]}

LastUse(used, k) == (CHOOSE u \in used : u.key = k).at

\* fin counts the calls: fresh keys put, repeated calls, clock jumps, and
\* entries that a get has removed as expired
InitCache ==
    /\ IdleVars
    /\ fin = [fn |-> "cache", fresh |-> 0, touches |-> 0, jumps |-> 0,
              removed |-> 0]
    /\ fout = NoFn

\* _cache_put of a key that was never put
CachePutFresh ==
    /\ fin.fresh < MaxKeys
    /\ cache' = _cache_put(cache, KeyOf(fin.fresh + 1), CachedPlan, now)
    /\ fin' = [fin EXCEPT !.fresh = @ + 1]
    /\ UNCHANGED <<now, fout>>
    /\ UnchangedCacheEnv

\* _cache_put of a key the cache holds
CachePutAgain ==
    /\ fin.touches < MaxTouch
    /\ \E i \in TouchAt(cache) :
        cache' = _cache_put(cache, cache[i].key, CachedPlan, now)
    /\ fin' = [fin EXCEPT !.touches = @ + 1]
    /\ UNCHANGED <<now, fout>>
    /\ UnchangedCacheEnv

\* _cache_get of a key the cache holds, or of a key never put; fout keeps
\* the key, the age of its entry at the call (-1: no entry) and the outcome
CacheGet ==
    /\ fin.touches < MaxTouch
    /\ \E k \in {cache[i].key : i \in TouchAt(cache)} \cup {KeyOf(0)} :
        /\ cache' = _cache_get(cache, k, now).cache
        /\ fin' = [fin EXCEPT !.touches = @ + 1,
                              !.removed = @ + Len(cache) - Len(cache')]
        /\ fout' = [fn |-> "_cache_get", key |-> k,
                    age |-> IF CacheIndex(cache, k) = 0 THEN -1
                            ELSE now - cache[CacheIndex(cache, k)].ts,
                    hit |-> _cache_get(cache, k, now).hit]
    /\ UNCHANGED now
    /\ UnchangedCacheEnv

\* time.monotonic() reaches, or passes, the TTL of every entry put so far
CacheExpire ==
    /\ fin.jumps < MaxExpire
    /\ \E d \in {_CACHE_TTL, _CACHE_TTL + 1} : now' = now + d
    /\ fin' = [fin EXCEPT !.jumps = @ + 1]
    /\ UNCHANGED <<cache, fout>>
    /\ UnchangedCacheEnv

NextCache == CachePutFresh \/ CachePutAgain \/ CacheGet \/ CacheExpire

SpecCache == InitCache /\ [][NextCache]_vars

-----------------------------------------------------------------------------
(* Runs of one audio request *)

\* audio of no byte, one byte, the maximum and one byte more, in formats
\* given as None, ".WAV", "wav", "exe" and "mp3"
AudioRequests ==
    { AudioReq(n, f) :
        n \in {0, 1, MAX_AUDIO_SIZE, MAX_AUDIO_SIZE + 1},
        f \in {<<>>, <<".", "W", "A", "V">>, <<"w", "a", "v">>, <<"e", "x", "e">>,
               <<"m", "p", "3">>} }

InitAudio ==
    /\ IdleVars
    /\ fin \in [fn : {"audio"}, r : AudioRequests]
    /\ fout = NoFn

NextAudio ==
    \/ StartAudioInvalidOf(fin.r)
    \/ StartAudioOf(fin.r)
    \/ PlannerReturn
    \/ ToolCallStart
    \/ ToolCallFinish
    \/ GroupJoin
    \/ LastJoin
    \/ LogWritten

SpecAudio == InitAudio /\ [][NextAudio]_vars

-----------------------------------------------------------------------------
(* _cache_key on pairs of texts *)

MaxTextLen == 3

\* texts of capital and small letters, blanks and tabs
KeyTexts == SeqsUpTo({"O", "o", " ", "\t"}, MaxTextLen)

InitKey ==
    /\ IdleVars
    /\ fin \in [fn : {"_cache_key"}, t1 : KeyTexts, t2 : KeyTexts,
                model : {<<>>, M_gpt4o},
                cfg : {_cfg_hash(a) : a \in {CfgNone, CfgDict(ListF(<<"light">>), AbsentF, AbsentF)}}]
    /\ fout = NoFn

\* the key of the first text, twice, and the key of the second text
EvalKey ==
    /\ fout = NoFn
    /\ fout' = [fn |-> "_cache_key",
                k1 |-> _cache_key(fin.t1, fin.model, fin.cfg),
                again |-> _cache_key(fin.t1, fin.model, fin.cfg),
                k2 |-> _cache_key(fin.t2, fin.model, fin.cfg)]
    /\ UNCHANGED fin
    /\ UnchangedRun

SpecKey == InitKey /\ [][EvalKey]_vars

-----------------------------------------------------------------------------
(* The order of use of the response cache *)

\* calls on keys that were put before
MaxLruTouch == 1

\* the entries a repeated call is made on: the two least recently used and
\* the most recently used
LruTouchAt(c) == {i \in {1, 2, Len(c)} : 1 <= i /\ i <= Len(c)}

\* fin counts the calls, keeps their record in used and names the last one
InitLru ==
    /\ IdleVars
    /\ fin = [fn |-> "lru", fresh |-> 0, touches |-> 0, used |-> {}, last |-> ""]
    /\ fout = NoFn

\* _cache_put of a key that was never put
LruPutFresh ==
    /\ fin.fresh < MaxKeys
    /\ cache' = _cache_put(cache, KeyOf(fin.fresh + 1), CachedPlan, now)
    /\ fin' = [fin EXCEPT !.fresh = @ + 1,
                          !.last = "put",
                          !.used = Used(@, KeyOf(fin.fresh + 1), fin.fresh + fin.touches + 1)]
    /\ UNCHANGED <<now, fout>>
    /\ UnchangedCacheEnv

\* _cache_put of a key the cache holds
LruPutAgain ==
    /\ fin.touches < MaxLruTouch
    /\ \E i \in LruTouchAt(cache) :
        /\ cache' = _cache_put(cache, cache[i].key, CachedPlan, now)
        /\ fin' = [fin EXCEPT !.touches = @ + 1,
                              !.last = "put",
                              !.used = Used(@, cache[i].key, fin.fresh + fin.touches + 1)]
    /\ UNCHANGED <<now, fout>>
    /\ UnchangedCacheEnv

\* _cache_get of a key the cache holds: a hit, the entries are fresh
LruGet ==
    /\ fin.touches < MaxLruTouch
    /\ \E i \in LruTouchAt(cache) :
        /\ _cache_get(cache, cache[i].key, now).hit
        /\ cache' = _cache_get(cache, cache[i].key, now).cache
        /\ fin' = [fin EXCEPT !.touches = @ + 1,
                              !.last = "get",
                              !.used = Used(@, cache[i].key, fin.fresh + fin.touches + 1)]
    /\ UNCHANGED <<now, fout>>
    /\ UnchangedCacheEnv

NextLru == LruPutFresh \/ LruPutAgain \/ LruGet

SpecLru == InitLru /\ [][NextLru]_vars

\* actions handed to merge_actions
MaxMergeActions == 3

\* the actions handed to the normalizer: two services, with and without
\* parameters, with and without an entity_id key inside data, targets that
\* are absent, empty, scalar and lists
MergePool ==
    { Act("light", "turn_off", e, d) :
        e \in {NoneId, StrId("light.a"), StrId("light.b"),
               ListId(<<"light.b", "light.a">>)},
        d \in {EmptyData, [p |-> 1, eid |-> NoneId]} }
    \cup
    { Act("light", "turn_off", StrId("light.a"), [p |-> 0, eid |-> StrId("light.a")]),
      Act("light", "turn_off", StrId("light.b"), [p |-> 0, eid |-> StrId("light.b")]),
      Act("light", "turn_on", StrId("light.a"), EmptyData),
      Act("light", "turn_on", StrId(""), EmptyData),
      Act("", "turn_on", ListId(<<>>), EmptyData) }

\* the actions without the entity_id key inside data
StripDataEid(as) == [i \in 1..Len(as) |-> [as[i] EXCEPT !.data.eid = NoneId]]

RECURSIVE MemberIds(_, _)
\* the ids named by the actions of the list that have key k, in order,
\* scalars and lists alike
MemberIds(as, k) ==
    IF as = <<>> THEN <<>>
    ELSE (IF MergeKey(Head(as)) = k /\ Truthy(Head(as).entity_id)
          THEN Head(as).entity_id.ids ELSE <<>>) \o MemberIds(Tail(as), k)

\* the first occurrences of the items of s, in the order of s
FirstSeen(s) ==
    LET idx == {i \in 1..Len(s) : \A j \in 1..(i - 1) : s[j] # s[i]}
    IN  [n \in 1..Cardinality(idx) |->
            s[CHOOSE i \in idx : Cardinality({j \in idx : j < i}) = n - 1]]

\* the position at which key k first occurs in the list
FirstAt(as, k) ==
    CHOOSE i \in 1..Len(as) :
        MergeKey(as[i]) = k /\ \A j \in 1..(i - 1) : MergeKey(as[j]) # k

\* the positions of the list whose action names entity e as a target
TouchesOf(as, e) ==
    {i \in 1..Len(as) : Truthy(as[i].entity_id) /\ InSeq(e, as[i].entity_id.ids)}

\* the last operation on e when the list is executed front to back: domain,
\* service and the data without its entity_id key
LastOp(as, e) ==
    LET i == CHOOSE j \in TouchesOf(as, e) : \A k \in TouchesOf(as, e) : k <= j
    IN  [domain |-> as[i].domain, service |-> as[i].service, p |-> as[i].data.p]

\* fout: v is merge_actions of the input, w is merge_actions of v, s is
\* merge_actions of the input without the entity_id keys inside data
InitMerge ==
    /\ IdleVars
    /\ fin \in [fn : {"merge_actions"}, as : SeqsUpTo(MergePool, MaxMergeActions)]
    /\ fout = [n |-> 0, v |-> <<>>, w |-> <<>>, sdone |-> FALSE, s |-> <<>>]

EvalMerge ==
    /\ fout.n = 0
    /\ fout' = [fout EXCEPT !.n = 1, !.v = merge_actions(fin.as)]
    /\ UNCHANGED fin
    /\ UnchangedRun

EvalMergeAgain ==
    /\ fout.n = 1
    /\ fout' = [fout EXCEPT !.n = 2, !.w = merge_actions(fout.v)]
    /\ UNCHANGED fin
    /\ UnchangedRun

EvalMergeBlind ==
    /\ ~fout.sdone
    /\ fout' = [fout EXCEPT !.sdone = TRUE, !.s = merge_actions(StripDataEid(fin.as))]
    /\ UNCHANGED fin
    /\ UnchangedRun

NextMerge == EvalMerge \/ EvalMergeAgain \/ EvalMergeBlind

SpecMerge == InitMerge /\ [][NextMerge]_vars

-----------------------------------------------------------------------------
(* A plan of two actions that differ by target only *)

PairData ==
    {EmptyData, [p |-> 1, eid |-> NoneId], [p |-> 0, eid |-> StrId("light.a")]}

\* two actions of one domain and service, each with one existing entity as
\* its target
PairReplies ==
    { Plan(<<Act("light", sv, StrId(e1), d1), Act("light", sv, StrId(e2), d2)>>) :
        sv \in {"turn_off", "turn_on"},
        e1 \in hass_states, e2 \in hass_states \ {"lock.c"},
        d1 \in PairData, d2 \in PairData }

PlannerReturnPair ==
    /\ reply = NoPlan
    /\ PlannerReturnFrom(PairReplies)

NextPair ==
    \/ PlannerReturnPair
    \/ ToolCallStart
    \/ ToolCallFinish
    \/ GroupJoin
    \/ LastJoin
    \/ LogWritten

SpecPair == InitExec /\ [][NextPair]_vars

-----------------------------------------------------------------------------
(* The planner: validation of the model output, and the audio retry *)

_AUDIO_TOKEN_CAP == 280
_AUDIO_RETRY_CAP == 500

MaxDocActions == 1

\* the text of a model output: nothing, text that is no JSON, a JSON value
\* that is no object, or a JSON object with or without the keys "actions"
\* and "explanation"
NoText == [t |-> "empty", has_actions |-> FALSE, actions |-> <<>>, has_explanation |-> FALSE]

Garbage == [t |-> "garbage", has_actions |-> FALSE, actions |-> <<>>, has_explanation |-> FALSE]

JsonList == [t |-> "list", has_actions |-> FALSE, actions |-> <<>>, has_explanation |-> FALSE]

JsonObj(ha, as, he) == [t |-> "obj", has_actions |-> ha, actions |-> as, has_explanation |-> he]

\* a JSON string where an action object is expected
JsonString == [t |-> "str"]

\* what a loop over a decoded JSON string yields: a one-character str
JsonChar == [t |-> "char"]

\* "actions": "x", a JSON string where the list is expected, as the
\* sequence of the items Python iterates over
StrActions == <<JsonChar>>

\* isinstance(v, list), for the value under "actions"
IsList(v) == \A i \in 1..Len(v) : v[i] # JsonChar

\* the item is a JSON object: a dict once decoded
IsObject(a) == "domain" \in DOMAIN a

\* items of the actions of a model output: an object that fits the schema,
\* an object whose entity_id is null, and a string
DocPool ==
    { Act("light", "turn_on", StrId("light.a"), EmptyData),
      Act("light", "turn_off", NoneId, EmptyData),
      JsonString }

DocsOf(pool, n) ==
    {Garbage, JsonList}
    \cup {JsonObj(FALSE, <<>>, he) : he \in BOOLEAN}
    \cup {JsonObj(TRUE, as, he) : as \in SeqsUpTo(pool, n), he \in BOOLEAN}
    \cup {JsonObj(TRUE, StrActions, he) : he \in BOOLEAN}

Docs == DocsOf(DocPool, MaxDocActions)

\* class Action: domain and service strings, entity_id a string or a list
\* of strings, data a dict that defaults to {}
ActionValidates(a) == IsObject(a) /\ a.entity_id.kind \in {"str", "list"}

\* Plan.model_validate_json succeeds: the text is a JSON object with a list
\* of Action objects and an explanation
PlanValidates(doc) ==
    /\ doc.t = "obj"
    /\ doc.has_actions
    /\ doc.has_explanation
    /\ \A i \in 1..Len(doc.actions) : ActionValidates(doc.actions[i])

model_dump(doc) == [actions |-> doc.actions, explanation |-> "ok"]

EmptyPlan(why) == [actions |-> <<>>, explanation |-> why]

\* text variant: the content of the response is validated, and replaced
\* by an empty plan when validation raises
_blocking_gpt_call(content) ==
    IF PlanValidates(content)
    THEN [data |-> model_dump(content), validated |-> TRUE]
    ELSE [data |-> EmptyPlan("Failed to parse JSON from model"), validated |-> FALSE]

\* a response of the audio model; finish "raise" stands for a request that
\* raises instead of answering
AudioResponse(f, tool, content) == [finish |-> f, tool |-> tool, content |-> content]

AudioResponses ==
    {AudioResponse(f, tool, content) :
        f \in {"stop", "length"}, tool \in Docs \cup {NoText}, content \in Docs \cup {NoText}}

Raised == AudioResponse("raise", NoText, NoText)

Attempt(data, has, validated, reason, raised) ==
    [data |-> data, has |-> has, validated |-> validated, reason |-> reason, raised |-> raised]

\* fault: the finish reason of the response is not looked at
_try_audio_call_any_finish(resp) ==
    IF resp.tool # NoText
    THEN IF PlanValidates(resp.tool)
         THEN Attempt(model_dump(resp.tool), TRUE, TRUE, "", FALSE)
         ELSE Attempt(NoPlan, FALSE, FALSE, "parse_error", FALSE)
    ELSE Attempt(EmptyPlan("content"), TRUE, FALSE, "", FALSE)

\* fault: tool-call arguments that fail validation always ask for a retry
_try_audio_call_revalidate(resp) ==
    IF resp.finish = "length"
    THEN Attempt(NoPlan, FALSE, FALSE, "truncated", FALSE)
    ELSE IF resp.tool # NoText
    THEN IF PlanValidates(resp.tool)
         THEN Attempt(model_dump(resp.tool), TRUE, TRUE, "", FALSE)
         ELSE Attempt(NoPlan, FALSE, FALSE, "parse_error", FALSE)
    ELSE IF resp.content # NoText /\ PlanValidates(resp.content)
    THEN Attempt(model_dump(resp.content), TRUE, TRUE, "", FALSE)
    ELSE Attempt(EmptyPlan("content"), TRUE, FALSE, "", FALSE)

\* one attempt of the audio variant: has is FALSE when a retry is needed
_try_audio_call(resp) ==
    IF resp.finish = "length"
    THEN Attempt(NoPlan, FALSE, FALSE, "truncated", FALSE)
    ELSE IF resp.tool # NoText
    THEN IF PlanValidates(resp.tool)
         THEN Attempt(model_dump(resp.tool), TRUE, TRUE, "", FALSE)
         ELSE IF resp.tool.t = "garbage"
         THEN Attempt(NoPlan, FALSE, FALSE, "parse_error", FALSE)
         ELSE IF resp.tool.t = "list"
         \* raw.get on a value that is no dict
         THEN Attempt(NoPlan, FALSE, FALSE, "", TRUE)
         \* the decoded JSON as it is
         ELSE Attempt([actions |-> resp.tool.actions,
                       explanation |-> IF resp.tool.has_explanation THEN "ok" ELSE ""],
                      TRUE, FALSE, "", FALSE)
    ELSE IF resp.content # NoText /\ PlanValidates(resp.content)
    THEN Attempt(model_dump(resp.content), TRUE, TRUE, "", FALSE)
    ELSE Attempt(EmptyPlan(IF resp.content # NoText THEN "content" ELSE "no actionable response"),
                 TRUE, FALSE, "", FALSE)

Call(cap, fix, resp) == [cap |-> cap, fix |-> fix, resp |-> resp]

Pending(calls, reason) ==
    [calls |-> calls, done |-> FALSE, validated |-> FALSE, reason |-> reason, ret |-> NoPlan]

Return(calls, data, validated) ==
    [calls |-> calls, done |-> TRUE, validated |-> validated, reason |-> "", ret |-> data]

InitPlanner ==
    /\ IdleVars
    /\ fin \in [fn : {"planner"}, variant : {"text", "audio"}]
    /\ fout = Pending(<<>>, "")

\* async_query_openai: one request; the validated plan, the fallback of
\* _blocking_gpt_call, or the fallback for a request that raised
TextCall ==
    /\ fin.variant = "text"
    /\ ~fout.done
    /\ \E content \in Docs \cup {NoText} :
        LET r == _blocking_gpt_call(content)
            c == <<Call(0, FALSE, AudioResponse("stop", NoText, content))>>
        IN  fout' = Return(c, r.data, r.validated)
    /\ UNCHANGED fin
    /\ UnchangedRun

TextRaise ==
    /\ fin.variant = "text"
    /\ ~fout.done
    /\ fout' = Return(<<Call(0, FALSE, Raised)>>, EmptyPlan("Model call failed"), FALSE)
    /\ UNCHANGED fin
    /\ UnchangedRun

\* _blocking_audio_gpt_call, first attempt with the standard token cap
AudioFirst ==
    /\ fin.variant = "audio"
    /\ ~fout.done
    /\ fout.calls = <<>>
    /\ \E resp \in AudioResponses :
        LET r == _try_audio_call(resp)
            c == <<Call(_AUDIO_TOKEN_CAP, FALSE, resp)>>
        IN  fout' = IF r.raised THEN Return(c, EmptyPlan("Audio model call failed"), FALSE)
                    ELSE IF r.has THEN Return(c, r.data, r.validated)
                    ELSE Pending(c, r.reason)
    /\ UNCHANGED fin
    /\ UnchangedRun

\* _blocking_audio_gpt_call, the retry with the higher cap and the fix-JSON
\* system message
AudioRetry ==
    /\ fin.variant = "audio"
    /\ ~fout.done
    /\ Len(fout.calls) = 1
    /\ \E resp \in AudioResponses :
        LET r == _try_audio_call(resp)
            c == Append(fout.calls, Call(_AUDIO_RETRY_CAP, TRUE, resp))
        IN  fout' = IF r.raised THEN Return(c, EmptyPlan("Audio model call failed"), FALSE)
                    ELSE IF r.has THEN Return(c, r.data, r.validated)
                    ELSE Return(c, EmptyPlan("Audio failed after retry: " \o fout.reason), FALSE)
    /\ UNCHANGED fin
    /\ UnchangedRun

\* a request of the audio variant raises: async_query_openai_audio returns
\* its fallback
AudioRaise ==
    /\ fin.variant = "audio"
    /\ ~fout.done
    /\ Len(fout.calls) <= 1
    /\ LET cap == IF fout.calls = <<>> THEN _AUDIO_TOKEN_CAP ELSE _AUDIO_RETRY_CAP
           c == Append(fout.calls, Call(cap, fout.calls # <<>>, Raised))
       IN  fout' = Return(c, EmptyPlan("Audio model call failed"), FALSE)
    /\ UNCHANGED fin
    /\ UnchangedRun

NextPlanner ==
    \/ TextCall
    \/ TextRaise
    \/ AudioFirst
    \/ AudioRetry
    \/ AudioRaise

SpecPlanner == InitPlanner /\ [][NextPlanner]_vars

-----------------------------------------------------------------------------
(* Plans whose actions share targets *)

MaxOrderActions == 3

\* three services on light.a, on light.b and on both
OrderPool ==
    { Act("light", sv, e, EmptyData) :
        sv \in {"turn_on", "turn_off", "toggle"},
        e \in {StrId("light.a"), StrId("light.b"), ListId(<<"light.a", "light.b">>)} }

OrderReplies == {Plan(as) : as \in SeqsUpTo(OrderPool, MaxOrderActions)}

PlannerReturnOrder == PlannerReturnFrom(OrderReplies)

NextOrder ==
    \/ PlannerReturnOrder
    \/ ToolCallStart
    \/ ToolCallFinish
    \/ GroupJoin
    \/ LastJoin
    \/ LogWritten

SpecOrder == InitExec /\ [][NextOrder]_vars

-----------------------------------------------------------------------------
(* An audio run from the planner's output to its return *)

MaxFaultActions == 2

\* tool-call arguments of up to MaxFaultActions items, among them two
\* actions on one entity
FaultDocs ==
    DocsOf(DocPool \cup {Act("light", "turn_off", StrId("light.a"), EmptyData)},
           MaxFaultActions)

\* what async_query_openai_audio returns for one response of the model
AudioReplies ==
    { _try_audio_call(resp).data :
        resp \in {x \in {AudioResponse("stop", d, NoText) : d \in FaultDocs} :
                    _try_audio_call(x).has /\ ~_try_audio_call(x).raised} }

\* action.get(...) of merge_actions raises AttributeError on an item that
\* is no dict
MergeRaises(as) == \E i \in 1..Len(as) : ~IsObject(as[i])

InitFault ==
    /\ IdleVars
    /\ fin = [fn |-> "fault", lost |-> 0]
    /\ fout = NoFn

\* the planner returns; merge_actions and _build_action_groups run
PlannerReturnAudio ==
    PlannerReturnFrom({rep \in AudioReplies : ~MergeRaises(rep.actions)})

\* the planner returns; merge_actions raises, outside any try, and the
\* exception leaves call_model_wrapper
NormalizeRaises ==
    /\ pc = "planning"
    /\ \E rep \in AudioReplies :
        /\ MergeRaises(rep.actions)
        /\ reply' = rep
    /\ pc' = "raised"
    /\ UNCHANGED <<allow_cfg, api_key, cache, now, path, c_key, cache_hit, actions,
                   action_groups, gi, tasks, all_exec_results, backend, log,
                   runs, fin, fout>>

\* write_log_entry fails: the exception is caught and logged inside it, and
\* call_model_wrapper returns as it does after a write
LogWriteFailed ==
    /\ pc = "logging"
    /\ pc' = "idle"
    /\ path' = "text"
    /\ c_key' = NoKey
    /\ reply' = NoPlan
    /\ cache_hit' = FALSE
    /\ actions' = <<>>
    /\ action_groups' = <<>>
    /\ gi' = 0
    /\ tasks' = <<>>
    /\ all_exec_results' = <<>>
    /\ backend' = <<>>
    /\ log' = <<>>
    /\ fin' = [fin EXCEPT !.lost = @ + 1]
    /\ UNCHANGED <<allow_cfg, api_key, cache, now, runs, fout>>

NextFault ==
    \/ StartAudio
    \/ PlannerReturnAudio
    \/ NormalizeRaises
    \/ ToolCallStart
    \/ ToolCallFinish
    \/ GroupJoin
    \/ LastJoin
    \/ LogWritten
    \/ LogWriteFailed

SpecFault == InitFault /\ [][NextFault]_vars

-----------------------------------------------------------------------------
(* Runs whose planner and backend calls all return *)

InitLive ==
    /\ IdleVars
    /\ fin = [fn |-> "live"]
    /\ fout = NoFn

\* the planner of an audio run returns actions that merge_actions cannot
\* read: the exception leaves call_model_wrapper
NormalizeRaisesAudio == path = "audio" /\ NormalizeRaises

\* hass.data loses or gets its API key between two runs
KeyChange ==
    /\ pc = "idle"
    /\ api_key' = ~api_key
    /\ UNCHANGED <<allow_cfg, cache, now, pc, path, c_key, reply, cache_hit, actions,
                   action_groups, gi, tasks, all_exec_results, backend, log,
                   runs, fin, fout>>

NextLive ==
    \/ KeyChange
    \/ StartNoKey
    \/ StartUnsupported
    \/ StartAudioInvalid
    \/ StartAudio
    \/ StartTextMiss
    \/ StartTextHit
    \/ PlannerReturn
    \/ NormalizeRaisesAudio
    \/ ToolCallStart
    \/ ToolCallFinish
    \/ GroupJoin
    \/ LastJoin
    \/ LogWritten

\* every awaited call returns and the event loop runs every ready step; no
\* request has to arrive
SpecLive ==
    /\ InitLive
    /\ [][NextLive]_vars
    /\ WF_vars(PlannerReturn \/ NormalizeRaisesAudio)
    /\ WF_vars(ToolCallStart)
    /\ WF_vars(ToolCallFinish)
    /\ WF_vars(GroupJoin)
    /\ WF_vars(LastJoin)
    /\ WF_vars(LogWritten)

-----------------------------------------------------------------------------
(* device_info: the compact context and its cache *)

_CONTEXT_TTL == 30

Hosts == {1, 2}

MaxVersion == 1
CtxStep == 15
MaxCtxTime == 45

\* the context text is a function of the states of the host it is built
\* from (version counts their changes) and of the allowlist; "" is NoData
ContextData(h, v, cfg_h) == [host |-> h, version |-> v, cfg |-> cfg_h]

NoData == ContextData(0, 0, CfgNone)

\* one value of _compact_caches; present is FALSE for a key not in the dict
CtxEntry(d, ts, cfg_h) == [present |-> TRUE, data |-> d, ts |-> ts, cfg_hash |-> cfg_h]

NoCtxEntry == [present |-> FALSE, data |-> NoData, ts |-> 0, cfg_hash |-> CfgNone]

\* _compact_caches.get(hass_key, {"data": "", "ts": 0.0, "cfg_hash": ""})
CtxGet(caches, hass_key) ==
    IF caches[hass_key].present THEN caches[hass_key] ELSE CtxEntry(NoData, 0, CfgNone)

\* fault: one cache slot for all hosts
HassId_shared(h) == 1

\* id(hass): distinct for the host objects of one process, which live as
\* long as the process
HassId(h) == h

\* fault: an entry as old as the TTL is still served
build_compact_context_late(caches, h, allow, force, t, v) ==
    LET c == CtxGet(caches, HassId(h))
        cfg_h == _cfg_hash(allow)
        d == ContextData(h, v, cfg_h)
    IN  IF ~force /\ c.data # NoData /\ t - c.ts <= _CONTEXT_TTL /\ c.cfg_hash = cfg_h
        THEN [caches |-> caches, data |-> c.data, rebuilt |-> FALSE]
        ELSE [caches |-> [caches EXCEPT ![HassId(h)] = CtxEntry(d, t, cfg_h)],
              data |-> d, rebuilt |-> TRUE]

\* build_compact_context(hass, allow_cfg, force_rebuild) at time t, the
\* states of hass being at version v
build_compact_context(caches, h, allow, force, t, v) ==
    LET hass_key == HassId(h)
        c == CtxGet(caches, hass_key)
        cfg_h == _cfg_hash(allow)
        d == ContextData(h, v, cfg_h)
    IN  IF ~force /\ c.data # NoData /\ t - c.ts < _CONTEXT_TTL /\ c.cfg_hash = cfg_h
        THEN [caches |-> caches, data |-> c.data, rebuilt |-> FALSE]
        ELSE [caches |-> [caches EXCEPT ![hass_key] = CtxEntry(d, t, cfg_h)],
              data |-> d, rebuilt |-> TRUE]

CtxConfigs == {CfgNone, CfgDict(ListF(<<"light">>), AbsentF, AbsentF)}

UnchangedCtxEnv ==
    UNCHANGED <<allow_cfg, api_key, cache, pc, path, c_key, reply, cache_hit,
                actions, action_groups, gi, tasks, all_exec_results, backend,
                log, runs>>

InitContext ==
    /\ IdleVars
    /\ fin = [fn |-> "context", caches |-> [h \in Hosts |-> NoCtxEntry],
              version |-> [h \in Hosts |-> 0]]
    /\ fout = NoFn

\* one call of build_compact_context
BuildContext ==
    /\ \E h \in Hosts, allow \in CtxConfigs, force \in BOOLEAN :
        LET r == build_compact_context(fin.caches, h, allow, force, now, fin.version[h])
        IN  /\ fin' = [fin EXCEPT !.caches = r.caches]
            /\ fout' = [fn |-> "build_compact_context", h |-> h, force |-> force,
                        allow |-> allow, t |-> now, v |-> fin.version[h],
                        data |-> r.data, rebuilt |-> r.rebuilt, before |-> fin.caches]
    /\ UNCHANGED now
    /\ UnchangedCtxEnv

\* a state of a host changes
StateChange ==
    /\ \E h \in Hosts :
        /\ fin.version[h] < MaxVersion
        /\ fin' = [fin EXCEPT !.version[h] = @ + 1]
    /\ UNCHANGED <<now, fout>>
    /\ UnchangedCtxEnv

CtxTick ==
    /\ now + CtxStep <= MaxCtxTime
    /\ now' = now + CtxStep
    /\ UNCHANGED <<fin, fout>>
    /\ UnchangedCtxEnv

NextContext ==
    \/ BuildContext
    \/ StateChange
    \/ CtxTick

SpecContext == InitContext /\ [][NextContext]_vars

-----------------------------------------------------------------------------
(* State queries *)

\* re.IGNORECASE on the letters
FoldChar(c) ==
    CASE c = "A" -> "a" [] c = "B" -> "b" [] c = "C" -> "c" [] c = "D" -> "d" []
      c = "E" -> "e" [] c = "F" -> "f" [] c = "G" -> "g" [] c = "H" -> "h" []
      c = "I" -> "i" [] c = "J" -> "j" [] c = "K" -> "k" [] c = "L" -> "l" []
      c = "M" -> "m" [] c = "N" -> "n" [] c = "O" -> "o" [] c = "P" -> "p" []
      c = "Q" -> "q" [] c = "R" -> "r" [] c = "S" -> "s" [] c = "T" -> "t" []
      c = "U" -> "u" [] c = "V" -> "v" [] c = "W" -> "w" [] c = "X" -> "x" []
      c = "Y" -> "y" [] c = "Z" -> "z"
      [] OTHER -> c

\* the characters of \\w
WordChars ==
    {"a", "b", "c", "d", "e", "f", "g", "h", "i", "j", "k", "l", "m", "n",
     "o", "p", "q", "r", "s", "t", "u", "v", "w", "x", "y", "z", "0", "1",
     "2", "3", "4", "5", "6", "7", "8", "9", "_"}

\* the alternatives of _STATE_QUERY_RE
_STATE_QUERY_RE ==
    {<<"w", "h", "a", "t", " ", "i", "s">>,
     <<"w", "h", "a", "t", " ", "a", "r", "e">>,
     <<"w", "h", "a", "t", "'", "s">>, <<"s", "t", "a", "t", "u", "s">>,
     <<"i", "s", " ", "t", "h", "e">>, <<"a", "r", "e", " ", "t", "h", "e">>,
     <<"c", "h", "e", "c", "k">>, <<"t", "e", "l", "l", " ", "m", "e">>,
     <<"h", "o", "w", " ", "i", "s">>, <<"h", "o", "w", " ", "a", "r", "e">>,
     <<"c", "u", "r", "r", "e", "n", "t">>,
     <<"s", "t", "a", "t", "e", " ", "o", "f">>}

\* \\b before position i of s
WordBoundary(s, i) ==
    LET before == i > 1 /\ FoldChar(s[i - 1]) \in WordChars
        after == i <= Len(s) /\ FoldChar(s[i]) \in WordChars
    IN  before # after

\* _STATE_QUERY_RE.search(text) finds a match
_is_state_query(text) ==
    \E w \in _STATE_QUERY_RE, i \in 1..Len(text) :
        /\ i + Len(w) - 1 <= Len(text)
        /\ \A k \in 1..Len(w) : FoldChar(text[i + k - 1]) = w[k]
        /\ WordBoundary(text, i)
        /\ WordBoundary(text, i + Len(w))

\* "Check a", "status", "is the", "checked" and "on"
QueryTexts ==
    {<<"C", "h", "e", "c", "k", " ", "a">>, <<"s", "t", "a", "t", "u", "s">>,
     <<"i", "s", " ", "t", "h", "e">>, <<"c", "h", "e", "c", "k", "e", "d">>,
     <<"o", "n">>}

\* the host of the runs
RunHost == 1

InitQuery ==
    /\ IdleVars
    /\ fin \in [fn : {"query"}, r : {TextReq(t, M_gpt4o) : t \in QueryTexts}]
    /\ fout = [fn |-> "query", caches |-> [h \in Hosts |-> NoCtxEntry], version |-> 0,
               asked |-> 0, rebuilt |-> 0, data |-> NoData]

StartMissQuery == StartTextMissOf(fin.r)

StartHitQuery == StartTextHitOf(fin.r)

\* async_query_openai: the planner asks for the compact context, forced
\* for a state query
ContextForRun ==
    /\ pc = "planning"
    /\ fout.asked # runs
    /\ LET r == build_compact_context(fout.caches, RunHost, allow_cfg,
                                      _is_state_query(fin.r.text), now, fout.version)
       IN  fout' = [fout EXCEPT !.caches = r.caches, !.asked = runs, !.data = r.data,
                                !.rebuilt = IF r.rebuilt THEN runs ELSE @]
    /\ UNCHANGED fin
    /\ UnchangedRun

\* fault: the planner answers before the context is there
PlannerReturnQuery_early == PlannerReturnFrom(Replies)

PlannerReturnQuery ==
    /\ fout.asked = runs
    /\ PlannerReturnFrom(Replies)

\* a state of the host changes
HostChange ==
    /\ fout.version < MaxVersion
    /\ fout' = [fout EXCEPT !.version = @ + 1]
    /\ UNCHANGED fin
    /\ UnchangedRun

\* the stage of the run: ContextBuilding and Planning are the two halves of
\* the planner call; normalizing and grouping are done in the step that
\* enters Executing, or Logged when there is nothing to execute
Stage ==
    CASE pc = "idle" -> "Idle"
      [] pc = "planning" /\ fout.asked # runs -> "ContextBuilding"
      [] pc = "planning" /\ fout.asked = runs -> "Planning"
      [] pc = "exec" -> "Executing"
      [] OTHER -> "Logged"

NextQuery ==
    \/ StartMissQuery
    \/ StartHitQuery
    \/ ContextForRun
    \/ PlannerReturnQuery
    \/ HostChange
    \/ ToolCallStart
    \/ ToolCallFinish
    \/ GroupJoin
    \/ LastJoin
    \/ LogWritten
    \/ Tick

SpecQuery == InitQuery /\ [][NextQuery]_vars

-----------------------------------------------------------------------------
(* A change of the AllowConfig between two runs *)

\* None, {} and a config with a domains list
PolicyConfigs ==
    {CfgNone, CfgDict(AbsentF, AbsentF, AbsentF), CfgDict(ListF(<<"light">>), AbsentF, AbsentF)}

\* the replies of the planner, each marked with the config of the run whose
\* context it was composed from
RepliesUnder(allow) ==
    {[actions |-> rep.actions, explanation |-> rep.explanation, under |-> allow] :
        rep \in Replies}

\* "status" asks for a state, "on" does not
PolicyTexts == {<<"s", "t", "a", "t", "u", "s">>, <<"o", "n">>}

InitPolicy ==
    /\ IdleVars
    /\ fin \in [fn : {"policy"}, r : {TextReq(t, M_gpt4o) : t \in PolicyTexts}]
    /\ fout = [fn |-> "query", caches |-> [h \in Hosts |-> NoCtxEntry], version |-> 0,
               asked |-> 0, rebuilt |-> 0, data |-> NoData]

PlannerReturnPolicy ==
    /\ fout.asked = runs
    /\ PlannerReturnFrom(RepliesUnder(allow_cfg))

\* hass.data[DOMAIN]["allow_cfg"] is another config when the next run reads it
ConfigChange ==
    /\ pc = "idle"
    /\ allow_cfg' \in PolicyConfigs \ {allow_cfg}
    /\ UNCHANGED <<api_key, cache, now, pc, path, c_key, reply, cache_hit, actions,
                   action_groups, gi, tasks, all_exec_results, backend, log,
                   runs, fin, fout>>

NextPolicy ==
    \/ StartMissQuery
    \/ StartHitQuery
    \/ ContextForRun
    \/ PlannerReturnPolicy
    \/ ConfigChange
    \/ ToolCallStart
    \/ ToolCallFinish
    \/ GroupJoin
    \/ LastJoin
    \/ LogWritten
    \/ Tick

SpecPolicy == InitPolicy /\ [][NextPolicy]_vars

-----------------------------------------------------------------------------
(* The interaction logger: write_log_entry called from executor threads *)

_MAX_ENTRIES_PER_FILE == 500
_MAX_LOG_FILES == 7

MaxLogDay == 9
MaxWrites == 2
Threads == {1, 2}

\* a name in the log directory: interactions_<day>.json, or another file
LogName(d) == [log |-> TRUE, day |-> d]

OtherName == [log |-> FALSE, day |-> 0]

\* f.startswith("interactions_") and f.endswith(".json")
IsInteractionLog(f) == f.log

\* the content of a day's file: the entries it held at the start, and the
\* entries appended since, each named by its thread and call number
LogFile(base, new) == [base |-> base, new |-> new]

\* _count_entries: one "timestamp" line per entry of new_log_entry
_count_entries(file) == file.base + Len(file.new)

\* fault: the oldest files are deleted until fewer than the limit remain
_cleanup_old_logs_below(dir) ==
    LET files == {f \in dir : IsInteractionLog(f)}
    IN  {f \in dir : ~IsInteractionLog(f)
                     \/ Cardinality({g \in files : g.day > f.day}) < _MAX_LOG_FILES - 1}

\* _cleanup_old_logs: of the sorted interaction logs the first ones are
\* removed while more than the limit are left; the names that stay
_cleanup_old_logs(dir) ==
    LET files == {f \in dir : IsInteractionLog(f)}
    IN  {f \in dir : ~IsInteractionLog(f)
                     \/ Cardinality({g \in files : g.day > f.day}) < _MAX_LOG_FILES}

\* fault: the lock is handed out while another thread holds it
LockFree_always(lock) == TRUE

\* _write_lock can be acquired
LockFree(lock) == lock = 0

Idle(n) == [pc |-> "idle", n |-> n, day |-> 0]

\* the directory holds the files of the days before the first call, with
\* or without a file of the current day, and possibly a file of another kind
InitLogger ==
    /\ IdleVars
    /\ \E k \in 0.._MAX_LOG_FILES, other \in BOOLEAN, base \in {1, 499, 500} :
        fin = [fn |-> "logger",
               dir |-> {LogName(d) : d \in 1..k} \cup (IF other THEN {OtherName} ELSE {}),
               start |-> base]
    /\ \E t0 \in {Cardinality({f \in fin.dir : f.log}),
                  Cardinality({f \in fin.dir : f.log}) + 1} :
        /\ t0 >= 1
        /\ fout = [fn |-> "logger", dir |-> fin.dir, today |-> t0, lock |-> 0,
                   files |-> [d \in 1..MaxLogDay |-> LogFile(IF LogName(d) \in fin.dir THEN fin.start ELSE 0, <<>>)],
                   th |-> [t \in Threads |-> Idle(0)],
                   deleted |-> {}, acks |-> {}]

UnchangedLogEnv == UNCHANGED fin /\ UnchangedRun

\* with _write_lock: the thread enters, makes the directory
Acquire(t) ==
    /\ fout.fn = "logger"
    /\ fout.th[t].pc = "idle"
    /\ fout.th[t].n < MaxWrites
    /\ LockFree(fout.lock)
    /\ fout' = [fout EXCEPT !.lock = t,
                            !.th[t] = [pc |-> "cleanup", n |-> @.n + 1, day |-> 0]]
    /\ UnchangedLogEnv

\* _cleanup_old_logs(_LOG_DIR), then today's date is read
Cleanup(t) ==
    /\ fout.fn = "logger"
    /\ fout.th[t].pc = "cleanup"
    /\ LET kept == _cleanup_old_logs(fout.dir)
       IN  fout' = [fout EXCEPT !.dir = kept,
                                !.deleted = @ \cup (fout.dir \ kept),
                                !.files = [d \in 1..MaxLogDay |->
                                             IF LogName(d) \in fout.dir \ kept
                                             THEN LogFile(0, <<>>) ELSE @[d]],
                                !.th[t].pc = "check",
                                !.th[t].day = fout.today]
    /\ UnchangedLogEnv

\* the file of the day exists and holds the maximum: the call returns
\* without writing
Refuse(t) ==
    /\ fout.fn = "logger"
    /\ fout.th[t].pc = "check"
    /\ LET d == fout.th[t].day
       IN  /\ LogName(d) \in fout.dir
           /\ _count_entries(fout.files[d]) >= _MAX_ENTRIES_PER_FILE
           /\ fout' = [fout EXCEPT !.lock = 0,
                                   !.th[t].pc = "idle",
                                   !.acks = @ \cup {[e |-> <<t, fout.th[t].n>>, day |-> d,
                                                     written |-> FALSE]}]
    /\ UnchangedLogEnv

\* the check of the entry count passed
Check(t) ==
    /\ fout.fn = "logger"
    /\ fout.th[t].pc = "check"
    /\ LET d == fout.th[t].day
       IN  ~(LogName(d) \in fout.dir
             /\ _count_entries(fout.files[d]) >= _MAX_ENTRIES_PER_FILE)
    /\ fout' = [fout EXCEPT !.th[t].pc = "append"]
    /\ UnchangedLogEnv

\* open(filepath, "a"), the block is written, the lock is released
AppendEntry(t) ==
    /\ fout.fn = "logger"
    /\ fout.th[t].pc = "append"
    /\ LET d == fout.th[t].day
           e == <<t, fout.th[t].n>>
       IN  fout' = [fout EXCEPT !.dir = @ \cup {LogName(d)},
                                !.files[d].new = Append(@, e),
                                !.lock = 0,
                                !.th[t].pc = "idle",
                                !.acks = @ \cup {[e |-> e, day |-> d, written |-> TRUE]}]
    /\ UnchangedLogEnv

\* midnight UTC
DayChange ==
    /\ fout.fn = "logger"
    /\ fout.today < MaxLogDay
    /\ fout' = [fout EXCEPT !.today = @ + 1]
    /\ UnchangedLogEnv

NextLogger ==
    \/ \E t \in Threads : Acquire(t)
    \/ \E t \in Threads : Cleanup(t)
    \/ \E t \in Threads : Refuse(t)
    \/ \E t \in Threads : Check(t)
    \/ \E t \in Threads : AppendEntry(t)
    \/ DayChange

SpecLogger == InitLogger /\ [][NextLogger]_vars

-----------------------------------------------------------------------------
(* One text request submitted twice *)

\* fin holds the request of both runs and the reply of the planner to the
\* first one; the first run starts at time 0
InitTwice ==
    /\ IdleVars
    /\ fin \in [fn : {"twice"},
                r : {r \in Requests : r.type = "text" /\ r.model \in HandledModels},
                rep : Replies]
    /\ fout = NoFn

StartMissTwice == StartTextMissOf(fin.r)

StartHitTwice == StartTextHitOf(fin.r)

PlannerReturnFirst == runs = 1 /\ PlannerReturnFrom({fin.rep})

PlannerReturnSecond == runs = 2 /\ PlannerReturnFrom(Replies)

NextTwice ==
    \/ StartMissTwice
    \/ StartHitTwice
    \/ PlannerReturnFirst
    \/ PlannerReturnSecond
    \/ ToolCallStart
    \/ ToolCallFinish
    \/ GroupJoin
    \/ LastJoin
    \/ LogWritten
    \/ Tick

SpecTwice == InitTwice /\ [][NextTwice]_vars

-----------------------------------------------------------------------------
(* Properties *)

\* C1: in every run, cache hit included, each backend call was dispatched for
\* an action that _is_allowed accepts with the ids of the action that exist;
\* an action the gate refuses has a result with allowed = FALSE and no call.
GateBeforeDispatch ==
    LET Known(eid) == IF Truthy(eid) THEN ListId(SelectKnown(eid.ids)) ELSE eid
        Passes(a)  == _is_allowed(allow_cfg, a.domain, a.service, Known(a.entity_id))
        Called(g, i) == \E k \in 1..Len(backend) :
                            backend[k].gi = g /\ backend[k].ti = i
    IN  /\ \A k \in 1..Len(backend) :
            Passes(action_groups[backend[k].gi][backend[k].ti])
        /\ \A i \in 1..Len(tasks) :
            /\ tasks[i].result.allowed <=> Called(gi, i)
            /\ (tasks[i].st # "pending" /\ ~Passes(action_groups[gi][i]))
                    => (~tasks[i].result.allowed /\ ~Called(gi, i))
        /\ \A n \in 1..Len(all_exec_results) :
            all_exec_results[n].allowed =>
                _is_allowed(allow_cfg, all_exec_results[n].domain,
                            all_exec_results[n].service,
                            all_exec_results[n].entity_id)

\* C1 case: a plan served from the cache, one action dispatched and one refused
GateOnCacheHit ==
    /\ cache_hit
    /\ pc = "exec"
    /\ \E k \in 1..Len(backend) : backend[k].gi = gi
    /\ \E i \in 1..Len(tasks) : tasks[i].result.error = "blocked by allowlist"

\* C2: a config with a non-empty domains list whose services is absent, None
\* or empty makes _is_allowed return False for every domain, service and
\* entity_id.
FailClosed ==
    ( /\ fout.done
      /\ fin.allow.kind = "dict"
      /\ fin.allow.domains.k = "list" /\ fin.allow.domains.v # <<>>
      /\ fin.allow.services.k \in {"absent", "none"} \/ fin.allow.services.v = <<>> )
    => fout.v = FALSE

\* C2 case: the domain is listed, the entity is listed, services is None
FailClosedCase ==
    /\ fout.done
    /\ fin.allow = CfgDict(ListF(<<"light">>), NoneF, ListF(<<"light.a">>))
    /\ fin.domain = "light"
    /\ fin.entity_id = StrId("light.a")
    /\ fout.v = FALSE

\* C3 as stated: under any config that is given at all, {} included, with
\* services absent or empty, a run dispatches no backend call.
PresentConfigDeniesAll ==
    ( /\ allow_cfg.kind = "dict"
      /\ allow_cfg.services.k \in {"absent", "none"} \/ allow_cfg.services.v = <<>> )
    => backend = <<>>

\* C3, amended: under a config that is a non-empty mapping with services
\* absent or empty, every action is refused and a run dispatches no backend
\* call, whatever domains and entities hold.
NonEmptyConfigDeniesAll ==
    ( /\ allow_cfg.kind = "dict"
      /\ \E f \in {allow_cfg.domains, allow_cfg.services, allow_cfg.entities} :
            f.k # "absent"
      /\ allow_cfg.services.k \in {"absent", "none"} \/ allow_cfg.services.v = <<>> )
    => /\ backend = <<>>
       /\ \A i \in 1..Len(tasks) : ~tasks[i].result.allowed
       /\ \A n \in 1..Len(all_exec_results) : ~all_exec_results[n].allowed

\* C3 case: domains lists "light", no services key, a light action is refused
DeniedWithoutServices ==
    /\ allow_cfg = CfgDict(ListF(<<"light">>), AbsentF, AbsentF)
    /\ pc = "exec"
    /\ \E i \in 1..Len(tasks) :
        /\ action_groups[gi][i].domain = "light"
        /\ tasks[i].result.error = "blocked by allowlist"

\* C4 as stated: _is_allowed equals the reference in which a domains or an
\* entities list restricts as soon as it is present, and a scalar entity_id
\* counts as a one-element list.
MatchesReferencePresent ==
    LET allow == fin.allow
        Ids   == SeqToSet(fin.entity_id.ids)
        Ref   ==
            IF allow.kind = "none"
               \/ \A f \in {allow.domains, allow.services, allow.entities} :
                     f.k = "absent"
            THEN TRUE
            ELSE IF allow.domains.k = "list"
                    /\ fin.domain \notin SeqToSet(allow.domains.v) THEN FALSE
            ELSE IF allow.services.k # "list" \/ allow.services.v = <<>> THEN FALSE
            ELSE IF SvcName(fin.domain, fin.service) \notin SeqToSet(allow.services.v)
            THEN FALSE
            ELSE IF allow.entities.k = "list"
                    /\ ~(Ids \subseteq SeqToSet(allow.entities.v)) THEN FALSE
            ELSE TRUE
    IN  fout.done => fout.v = Ref

\* C4, amended: _is_allowed equals the reference in which a domains or an
\* entities list restricts only when it is non-empty, and an entity_id that
\* is None, "" or [] names no id: True for None and {}; else False if domains
\* is non-empty and lacks the domain, False if services is absent, None or
\* empty, False if services lacks "domain.service", False if entities is
\* non-empty and lacks an id of entity_id, True otherwise.
MatchesReferenceNonEmpty ==
    LET allow == fin.allow
        Ids   == IF fin.entity_id \in {NoneId, StrId(""), ListId(<<>>)}
                 THEN {} ELSE SeqToSet(fin.entity_id.ids)
        Ref   ==
            IF allow.kind = "none"
               \/ \A f \in {allow.domains, allow.services, allow.entities} :
                     f.k = "absent"
            THEN TRUE
            ELSE IF allow.domains.k = "list" /\ allow.domains.v # <<>>
                    /\ fin.domain \notin SeqToSet(allow.domains.v) THEN FALSE
            ELSE IF allow.services.k # "list" \/ allow.services.v = <<>> THEN FALSE
            ELSE IF SvcName(fin.domain, fin.service) \notin SeqToSet(allow.services.v)
            THEN FALSE
            ELSE IF allow.entities.k = "list" /\ allow.entities.v # <<>>
                    /\ ~(Ids \subseteq SeqToSet(allow.entities.v)) THEN FALSE
            ELSE TRUE
    IN  fout.done => fout.v = Ref

\* C4 case: an empty entities list, the service listed: the call is allowed
EmptyEntitiesUnrestricted ==
    /\ fout.done
    /\ fin.allow = CfgDict(AbsentF, ListF(<<"light.turn_on">>), ListF(<<>>))
    /\ fin.domain = "light" /\ fin.service = "turn_on"
    /\ fin.entity_id = StrId("light.a")
    /\ fout.v = TRUE

\* C5: in the result of _build_action_groups two actions of one group have
\* disjoint target sets, and an action without entity_id is alone in its group.
GroupsDisjoint ==
    fout.done =>
        \A g \in 1..Len(fout.v) :
            LET grp == fout.v[g]
            IN  /\ \A i, j \in 1..Len(grp) :
                    i < j => SeqToSet(grp[i].entity_id.ids)
                                \cap SeqToSet(grp[j].entity_id.ids) = {}
                /\ \A i \in 1..Len(grp) :
                    (grp[i].entity_id.kind = "none" \/ grp[i].entity_id.ids = <<>>
                        \/ grp[i].entity_id.ids = <<"">>) => Len(grp) = 1

\* C5 case: a group of two, and after an action without target a further
\* targeted action that went to another group
GroupsMixed ==
    /\ fout.done
    /\ Len(fin.as) = 4
    /\ fin.as[1].entity_id = NoneId
    /\ fin.as[2].entity_id = StrId("light.a")
    /\ fin.as[3].entity_id = StrId("light.b")
    /\ fin.as[4].entity_id = StrId("light.a")
    /\ Len(fout.v) = 3
    /\ Len(fout.v[2]) = 2

\* C6: no two backend calls that are in flight at the same time name a common
\* entity in the entity_id they are called with.
NoSharedTargetInFlight ==
    \A k, l \in 1..Len(backend) :
        (k < l /\ ~backend[k].done /\ ~backend[l].done)
            => SeqToSet(backend[k].data.eid.ids)
                  \cap SeqToSet(backend[l].data.eid.ids) = {}

\* C7: groups run in the order of the grouper: a call of a later group is
\* dispatched only when every member of every earlier group has returned and
\* its result is recorded.
GroupsInOrder ==
    LET Off[g \in 1..(Len(action_groups) + 1)] ==
            IF g = 1 THEN 0 ELSE Off[g - 1] + Len(action_groups[g - 1])
    IN  /\ \A k \in 1..Len(backend) :
            /\ backend[k].gi <= gi
            /\ ~backend[k].done => (pc = "exec" /\ backend[k].gi = gi)
            /\ \A l \in 1..(k - 1) : backend[l].gi <= backend[k].gi
        /\ pc = "exec" =>
            /\ Len(all_exec_results) = Off[gi]
            /\ Len(tasks) = Len(action_groups[gi])

\* C7 case: a group of two has run, a call of the second group is in flight
SecondGroupAfterJoin ==
    /\ pc = "exec"
    /\ gi = 2
    /\ Len(action_groups[1]) = 2
    /\ \E k \in 1..Len(backend) : backend[k].gi = 1 /\ backend[k].ti = 2
    /\ \E k \in 1..Len(backend) : backend[k].gi = 2 /\ ~backend[k].done

\* C8: a backend call that raises leaves allowed = TRUE, success = FALSE and
\* the error text in the result of its action; when the execution stage has
\* ended every action that passes the checks has had its call, and the
\* results are one per merged action, in group order.
ErrorsCapturedPerAction ==
    LET Off[g \in 1..(Len(action_groups) + 1)] ==
            IF g = 1 THEN 0 ELSE Off[g - 1] + Len(action_groups[g - 1])
        Res(g, i) == IF pc = "exec" /\ g = gi THEN tasks[i].result
                     ELSE all_exec_results[Off[g] + i]
        Called(g, i) == \E k \in 1..Len(backend) :
                            backend[k].gi = g /\ backend[k].ti = i
    IN  /\ \A k \in 1..Len(backend) :
            backend[k].done =>
                LET r == Res(backend[k].gi, backend[k].ti)
                IN  /\ r.allowed
                    /\ r.success = ~backend[k].raised
                    /\ backend[k].raised => r.error = "exc"
        /\ pc = "logging" =>
            /\ Len(all_exec_results) = Len(actions)
            /\ \A g \in 1..Len(action_groups) : \A i \in 1..Len(action_groups[g]) :
                /\ all_exec_results[Off[g] + i].domain = action_groups[g][i].domain
                /\ all_exec_results[Off[g] + i].service = action_groups[g][i].service
                /\ _execute_tool_call(action_groups[g][i], allow_cfg).dispatch
                        => Called(g, i)

\* C8 case: the first call of a group of two raised, its sibling and a call
\* of the next group were made, three results are recorded
RaiseThenOthersRun ==
    /\ pc = "logging"
    /\ Len(all_exec_results) = 3
    /\ Len(action_groups) = 2
    /\ \E k \in 1..Len(backend) :
        backend[k].gi = 1 /\ backend[k].ti = 1 /\ backend[k].raised
    /\ \E k \in 1..Len(backend) : backend[k].gi = 1 /\ backend[k].ti = 2
    /\ \E k \in 1..Len(backend) : backend[k].gi = 2 /\ ~backend[k].raised

\* C9: every plan held by the response cache has at least one action, and
\* "domain.service" of each of its actions is a cacheable service.
OnlyCacheablePlansStored ==
    \A e \in 1..Len(cache) :
        /\ Len(cache[e].data.actions) >= 1
        /\ \A i \in 1..Len(cache[e].data.actions) :
            SvcName(cache[e].data.actions[i].domain,
                    cache[e].data.actions[i].service)
                \in {"light.turn_on", "light.turn_off", "switch.turn_on",
                     "switch.turn_off", "cover.open_cover", "cover.close_cover",
                     "cover.set_cover_position"}

\* C9 case: the cache holds an earlier plan, and the plan of this text run,
\* which has an action outside the cacheable services, was not stored
UncacheablePlanSkipped ==
    /\ pc = "exec"
    /\ path = "text"
    /\ ~cache_hit
    /\ cache # <<>>
    /\ \E i \in 1..Len(reply.actions) : reply.actions[i].domain = "lock"
    /\ \A e \in 1..Len(cache) : cache[e].key # c_key

\* C10: after any sequence of _cache_put and _cache_get the cache holds at
\* most 50 entries, and once more than 50 unique keys have been put, none of
\* them removed as expired, it holds exactly 50.
CacheWithinCapacity ==
    /\ Len(cache) <= 50
    /\ (fin.fresh > 50 /\ fin.removed = 0) => Len(cache) = 50

\* C10 case: the 51st unique key has been put
CacheOverflowed ==
    /\ fin.fresh > 50
    /\ fin.removed = 0
    /\ Len(cache) = 50
    /\ cache[1].key # KeyOf(1)

\* C11: _cache_get never returns an entry older than the 60 s TTL: a get of
\* such an entry reports a miss and removes the entry; an entry of age 60 s
\* or less is returned.
ExpiredEntryIsMiss ==
    fout.fn = "_cache_get" =>
        /\ fout.hit <=> (0 <= fout.age /\ fout.age <= 60)
        /\ fout.age > 60 => \A e \in 1..Len(cache) : cache[e].key # fout.key

\* C11 case: a get of an entry aged 61 s missed and the entry is gone
ExpiredEntryRemoved ==
    /\ fout.fn = "_cache_get"
    /\ fout.age = 61
    /\ ~fout.hit
    /\ fin.removed = 1
    /\ \A e \in 1..Len(cache) : cache[e].key # fout.key

\* C12: a text request submitted again, with the same model and config, at
\* most 60 s after its first run, whose reply had at least one action and
\* cacheable services only, is served from the response cache: the planner
\* is not awaited for it.
SecondRunFromCache ==
    ( /\ runs = 2
      /\ pc # "idle"
      /\ now <= 60
      /\ fin.rep.actions # <<>>
      /\ \A i \in 1..Len(fin.rep.actions) :
            fin.rep.actions[i].domain = "light"
            /\ fin.rep.actions[i].service \in {"turn_on", "turn_off"} )
    => (cache_hit /\ pc # "planning")

\* C12 case: the second run, 60 s after the first, executes the cached plan
SecondRunHitAtSixty ==
    /\ runs = 2
    /\ now = 60
    /\ cache_hit
    /\ pc = "exec"
    /\ backend # <<>>
    /\ Len(reply.actions) = Len(fin.rep.actions)

\* C13: merge_actions is idempotent: merging a merged list returns it unchanged.
MergeIdempotent == fout.n = 2 => fout.w = fout.v

\* C13 case: three actions went into two, one of them with a list of two
\* targets, and the second merge has run
MergedTwice ==
    /\ fout.n = 2
    /\ Len(fin.as) = 3
    /\ Len(fout.v) = 2
    /\ \E i \in 1..2 : fout.v[i].entity_id.kind = "list"
    /\ Len(fout.w) = 2

\* C14: merge_actions groups the actions the same way with and without an
\* entity_id key inside data: as many outputs, each with the same domain,
\* service, targets and remaining data.
MergeBlindToDataEntity ==
    (fout.n >= 1 /\ fout.sdone) =>
        /\ Len(fout.v) = Len(fout.s)
        /\ \A i \in 1..Len(fout.v) :
            /\ fout.v[i].domain = fout.s[i].domain
            /\ fout.v[i].service = fout.s[i].service
            /\ fout.v[i].entity_id = fout.s[i].entity_id
            /\ fout.v[i].data.p = fout.s[i].data.p

\* C14 case: two actions that differ by target only, each with its target
\* repeated inside data, are merged into one action with both targets
MergedDespiteDataEntity ==
    /\ fout.n >= 1 /\ fout.sdone
    /\ Len(fin.as) = 2
    /\ fin.as[1].data.eid = StrId("light.a")
    /\ fin.as[2].data.eid = StrId("light.b")
    /\ Len(fout.v) = 1
    /\ fout.v[1].entity_id = ListId(<<"light.a", "light.b">>)

\* C15: for a plan of two actions with the same domain, service and data,
\* each on one distinct existing and authorized entity, the normalizer
\* yields one action with a list of the two entities, and the run makes
\* exactly one backend call, whose entity_id is that list.
PairMergedIntoOneCall ==
    ( /\ pc = "logging"
      /\ Len(reply.actions) = 2
      /\ reply.actions[1].data = reply.actions[2].data
      /\ reply.actions[1].entity_id # reply.actions[2].entity_id
      /\ \A i \in 1..2 :
            _is_allowed(allow_cfg, reply.actions[i].domain,
                        reply.actions[i].service, reply.actions[i].entity_id) )
    => /\ Len(actions) = 1
       /\ actions[1].entity_id.kind = "list"
       /\ Len(actions[1].entity_id.ids) = 2
       /\ Len(backend) = 1
       /\ backend[1].data.eid = actions[1].entity_id

\* C16: a plan goes on to normalization and execution only after successful
\* structural validation: when validation of the model output fails, in the
\* text variant and in the audio variant, the planner returns an
\* empty-actions plan, so that no action that was not validated is passed on.
ValidatedOrEmpty ==
    (fin.fn = "planner" /\ fout.done /\ ~fout.validated) => fout.ret.actions = <<>>

\* C17: an audio request makes at most two model calls; a truncated first
\* response is followed by exactly one retry, with the higher token cap and
\* the corrective system message; a valid tool call of the retry is returned
\* as the plan, and a retry that fails too gives an empty-actions plan.
AudioRetriesOnce ==
    (fin.fn = "planner" /\ fin.variant = "audio") =>
        /\ Len(fout.calls) <= 2
        /\ (fout.done /\ fout.calls[1].resp.finish = "length") =>
              /\ Len(fout.calls) = 2
              /\ fout.calls[1].cap = 280 /\ ~fout.calls[1].fix
              /\ fout.calls[2].cap = 500 /\ fout.calls[2].fix
              /\ (fout.calls[2].resp.finish = "stop" /\ PlanValidates(fout.calls[2].resp.tool))
                    => fout.ret = model_dump(fout.calls[2].resp.tool)
              /\ (fout.calls[2].resp.finish \in {"length", "raise"}
                  \/ fout.calls[2].resp.tool.t = "garbage")
                    => fout.ret.actions = <<>> /\ fout.ret.explanation # ""

\* C17 case: the first response was truncated and the plan with actions of
\* the retry's tool call is returned.
TruncatedThenRetried ==
    /\ fin.fn = "planner" /\ fin.variant = "audio" /\ fout.done
    /\ Len(fout.calls) = 2
    /\ fout.calls[1].resp.finish = "length"
    /\ fout.calls[2].resp.finish = "stop"
    /\ PlanValidates(fout.calls[2].resp.tool)
    /\ fout.ret.actions # <<>>

\* C19: the context cache is keyed per host instance: build_compact_context
\* called for one host returns a context of that host, and leaves the entry
\* of every other host as it was.
HostEntriesIsolated ==
    fin.fn = "context" =>
        /\ \A h \in Hosts : fin.caches[h].present => fin.caches[h].data.host = h
        /\ fout.fn = "build_compact_context" =>
              /\ fout.data.host = fout.h
              /\ \A g \in Hosts \ {fout.h} : fin.caches[g] = fout.before[g]

\* C19 case: a call for host 2 is answered from the cache while host 1
\* holds an entry of its own, built for the same allowlist.
OtherHostCached ==
    /\ fin.fn = "context"
    /\ fout.fn = "build_compact_context"
    /\ fout.h = 2 /\ ~fout.rebuilt
    /\ fin.caches[1].present
    /\ fin.caches[1].cfg_hash = fin.caches[2].cfg_hash
    /\ fin.caches[1].ts > fin.caches[2].ts

\* C18: in every run whose text is a state query, the compact context is
\* rebuilt during that run, so that the reply of the run never rests on a
\* snapshot built by an earlier run.
StateQueryRebuilds ==
    ( /\ fin.fn = "query"
      /\ _is_state_query(fin.r.text)
      /\ pc \in {"exec", "logging"} )
    => fout.rebuilt = runs

\* C20: with no API credential configured a run ends at entry with a logged
\* error: the planner is not invoked, the response cache is neither read
\* nor written, and no backend call is made.
NoKeyNoRun ==
    ~api_key =>
        /\ pc \in {"idle", "logging"}
        /\ pc = "logging" => log = <<LogEntry("no API key", <<>>)>>
        /\ cache = <<>> /\ ~cache_hit /\ c_key = NoKey
        /\ reply = NoPlan /\ actions = <<>>
        /\ tasks = <<>> /\ backend = <<>> /\ all_exec_results = <<>>

\* C20 case: a second run without a credential has ended at entry.
SecondRunWithoutKey ==
    /\ ~api_key
    /\ runs = 2
    /\ pc = "logging"
    /\ log = <<LogEntry("no API key", <<>>)>>

\* C21: the ids of an action that the backend does not know are dropped
\* from its targets before the allowlist test and the call; an action all of
\* whose ids are unknown is skipped without a backend call; the run goes on
\* with the other actions, each of which gets its result.
UnknownIdsDropped ==
    /\ \A i \in 1..Len(tasks) :
          LET r == tasks[i].result
              a == action_groups[gi][i]
              ids == SeqToSet(a.entity_id.ids)
              called == \E k \in 1..Len(backend) : backend[k].gi = gi /\ backend[k].ti = i
          IN  (tasks[i].st # "pending" /\ a.domain # "" /\ a.service # "") =>
                 /\ SeqToSet(r.valid_entities) = ids \cap hass_states
                 /\ r.dropped_entities = ids \ hass_states
                 /\ r.allowed => SeqToSet(r.entity_id.ids) = ids \cap hass_states
                 /\ (ids # {} /\ ids \cap hass_states = {}) =>
                        ~r.allowed /\ r.error # "" /\ ~called
    /\ pc = "logging" =>
          /\ Len(all_exec_results) = Len(actions)
          /\ Len(backend) =
                Cardinality({i \in 1..Len(all_exec_results) : all_exec_results[i].allowed})

\* C21 case: an action with unknown ids only was skipped, an action after
\* it lost one unknown id and was called, and the run has reached its log.
SkippedThenCalled ==
    /\ pc = "logging"
    /\ \E i, j \in 1..Len(all_exec_results) :
        /\ i < j
        /\ all_exec_results[i].valid_entities = <<>>
        /\ all_exec_results[i].dropped_entities # {}
        /\ all_exec_results[j].dropped_entities # {}
        /\ all_exec_results[j].allowed /\ all_exec_results[j].success

\* C22: a run never raises an unhandled fault to its caller: whatever the
\* planner returns, whatever the backend and the log writer do,
\* call_model_wrapper returns normally.
NeverRaises == pc # "raised"

\* C23: the entity ids a dispatched call carries are exactly the ids of its
\* action that passed the existence test and the allowlist test; an
\* entity_id key inside the action's data never redirects the call.
DispatchedIdsAreGated ==
    pc = "exec" =>
        \A k \in 1..Len(backend) :
            backend[k].gi = gi =>
                /\ tasks[backend[k].ti].result.allowed
                /\ backend[k].data.eid = tasks[backend[k].ti].result.entity_id

\* C24: of two actions of the normalized list that share a target entity,
\* the one that comes first in the list is in a strictly earlier group, so
\* that the calls on an entity are made in plan order.
SharedTargetInPlanOrder ==
    \A i, j \in 1..Len(actions) :
        ( /\ i < j
          /\ SeqToSet(actions[i].entity_id.ids) \cap SeqToSet(actions[j].entity_id.ids) # {} )
        => \E g, h \in 1..Len(action_groups) :
              /\ g < h
              /\ \E m \in 1..Len(action_groups[g]) : action_groups[g][m] = actions[i]
              /\ \E m \in 1..Len(action_groups[h]) : action_groups[h][m] = actions[j]

\* C25: executing a run never modifies a plan stored in the response cache:
\* the actions a later cache hit returns are those the planner returned
\* when the entry was stored.
CachedPlanUnmodified ==
    ( /\ fin.fn = "twice"
      /\ runs = 2 /\ cache_hit
      /\ pc = "exec" /\ gi = 1
      /\ \A i \in 1..Len(tasks) : tasks[i].st = "pending" )
    => reply.actions = fin.rep.actions

\* C26: build_compact_context returns the cached snapshot without a rebuild
\* exactly when no rebuild is forced, the host has an entry, the entry is
\* younger than 30 s and its config fingerprint is the current one;
\* otherwise it rebuilds and replaces the host's entry by the new snapshot,
\* its time and the current fingerprint.
ContextServedOrRebuilt ==
    (fin.fn = "context" /\ fout.fn = "build_compact_context") =>
        LET old == fout.before[fout.h]
            fresh == /\ ~fout.force
                     /\ old.present
                     /\ fout.t - old.ts < 30
                     /\ old.cfg_hash = _cfg_hash(fout.allow)
        IN  /\ fout.rebuilt <=> ~fresh
            /\ fresh => fout.data = old.data /\ fin.caches[fout.h] = old
            /\ ~fresh =>
                  /\ fout.data = [host |-> fout.h, version |-> fout.v,
                                  cfg |-> _cfg_hash(fout.allow)]
                  /\ fin.caches[fout.h] =
                        [present |-> TRUE, data |-> fout.data, ts |-> fout.t,
                         cfg_hash |-> _cfg_hash(fout.allow)]

\* C26 case: an entry of the current config, exactly 30 s old, is replaced
\* by a rebuild that nobody forced, after the host's states have changed.
RebuiltAtTtl ==
    /\ fin.fn = "context" /\ fout.fn = "build_compact_context"
    /\ fout.rebuilt /\ ~fout.force
    /\ fout.before[fout.h].present
    /\ fout.t - fout.before[fout.h].ts = 30
    /\ fout.before[fout.h].cfg_hash = _cfg_hash(fout.allow)
    /\ fout.data # fout.before[fout.h].data

LastOperationPreserved ==
    (fin.fn = "merge_actions" /\ fout.n >= 1) =>
        \A e \in {"light.a", "light.b"} :
            TouchesOf(fin.as, e) # {} =>
                /\ TouchesOf(fout.v, e) # {}
                /\ LastOp(fout.v, e) = LastOp(fin.as, e)

\* C30: both planner variants tolerate a model output without explanation
\* (the explanation of the plan is the empty string) and one whose actions
\* is not a list (the actions of the plan are the empty list), so the plan
\* handed to the normalizer always holds a list of actions.
PlannerTolerates ==
    (fin.fn = "planner" /\ fout.done) =>
        LET c   == fout.calls[Len(fout.calls)].resp
            doc == IF fin.variant = "audio" /\ c.tool # NoText THEN c.tool ELSE c.content
        IN  /\ IsList(fout.ret.actions)
            /\ (c.finish = "stop" /\ doc.t = "obj" /\ doc.has_actions) =>
                  /\ ~IsList(doc.actions) => fout.ret.actions = <<>>
                  /\ ( /\ ~doc.has_explanation
                       /\ \A i \in 1..Len(doc.actions) : ActionValidates(doc.actions[i]) )
                        => fout.ret.explanation = ""

\* C31 as stated: a second model call is made only by the audio variant
\* after a truncated first response.
RetryOnlyAfterTruncation ==
    (fin.fn = "planner" /\ Len(fout.calls) = 2) =>
        fin.variant = "audio" /\ fout.calls[1].resp.finish = "length"

\* C31: a second model call is made only by the audio variant, and only
\* after a first response that was truncated or whose tool-call arguments
\* are no JSON; arguments that decode but fail validation, a response
\* without tool call and a request that raised are not followed by a
\* second call, and there is never a third.
RetryOnlyWhenNoData ==
    fin.fn = "planner" =>
        /\ Len(fout.calls) <= 2
        /\ fin.variant = "text" => Len(fout.calls) <= 1
        /\ Len(fout.calls) = 2 =>
              /\ fin.variant = "audio"
              /\ \/ fout.calls[1].resp.finish = "length"
                 \/ /\ fout.calls[1].resp.finish = "stop"
                    /\ fout.calls[1].resp.tool = Garbage
        /\ (fout.done /\ fout.calls[1].resp.finish # "length"
                      /\ fout.calls[1].resp.tool # Garbage) => Len(fout.calls) = 1

\* C31 case: the first response was complete but its tool-call arguments
\* were no JSON, and a second call was made.
RetriedAfterParseError ==
    /\ fin.fn = "planner" /\ fin.variant = "audio" /\ fout.done
    /\ Len(fout.calls) = 2
    /\ fout.calls[1].resp.finish = "stop"
    /\ fout.calls[1].resp.tool = Garbage

\* C32: after a write_log_entry call has completed, the log directory
\* holds at most _MAX_LOG_FILES interaction logs, every deleted log is
\* older than every retained one, and no other file has been deleted.
AtMostMaxLogFiles ==
    (fin.fn = "logger" /\ fout.lock = 0 /\ fout.acks # {}) =>
        /\ Cardinality({f \in fout.dir : IsInteractionLog(f)}) <= _MAX_LOG_FILES
        /\ \A g \in fout.deleted :
              IsInteractionLog(g) /\ \A f \in fout.dir : IsInteractionLog(f) => g.day < f.day
        /\ OtherName \in fin.dir => OtherName \in fout.dir

\* C33: under any interleaving of concurrent write_log_entry calls the
\* count check and the append are one critical section: no thread is
\* between its check and its release while another is inside, no entry
\* of a completed write is missing from or doubled in its day's file
\* while that file is kept, a file never holds more than
\* _MAX_ENTRIES_PER_FILE entries, and a write is refused exactly when
\* its day's file is at the maximum.
LogWritesSerialized ==
    fin.fn = "logger" =>
        /\ Cardinality({t \in Threads : fout.th[t].pc # "idle"}) <= 1
        /\ \A d \in 1..MaxLogDay :
              /\ _count_entries(fout.files[d]) <= _MAX_ENTRIES_PER_FILE
              /\ \A i, j \in 1..Len(fout.files[d].new) :
                    fout.files[d].new[i] = fout.files[d].new[j] => i = j
        /\ \A a \in fout.acks :
              /\ (a.written /\ LogName(a.day) \notin fout.deleted) =>
                    InSeq(a.e, fout.files[a.day].new)
              /\ (~a.written /\ LogName(a.day) \notin fout.deleted) =>
                    _count_entries(fout.files[a.day]) = _MAX_ENTRIES_PER_FILE
        /\ \A d \in 1..MaxLogDay :
              (LogName(d) \notin fin.dir /\ LogName(d) \notin fout.deleted) =>
                    Len(fout.files[d].new) =
                        Cardinality({a \in fout.acks : a.day = d /\ a.written})

\* C33 case: both threads have written into the file of one day that was
\* one entry below the maximum when they started: one entry was appended,
\* the write of the other thread was refused.
OneWrittenOneRefused ==
    /\ fin.fn = "logger"
    /\ fin.start = 499
    /\ \E d \in 1..MaxLogDay, a, b \in fout.acks :
          /\ a.day = d /\ b.day = d
          /\ a.e[1] = 1 /\ b.e[1] = 2
          /\ a.written # b.written
          /\ _count_entries(fout.files[d]) = _MAX_ENTRIES_PER_FILE

\* C34: merge_actions returns one action per distinct key (domain,
\* service, data without entity_id) in the order in which the keys first
\* occur; the targets of each are the ids of its member actions without
\* repetition in first-seen order: a scalar for one id, a list for
\* several, no entity_id for none.
MergeMatchesContract ==
    (fin.fn = "merge_actions" /\ fout.n >= 1) =>
        LET as == fin.as
            v  == fout.v
        IN  /\ {MergeKey(v[i]) : i \in 1..Len(v)} = {MergeKey(as[i]) : i \in 1..Len(as)}
            /\ \A i, j \in 1..Len(v) :
                  i < j => FirstAt(as, MergeKey(v[i])) < FirstAt(as, MergeKey(v[j]))
            /\ \A i \in 1..Len(v) :
                  LET ids == FirstSeen(MemberIds(as, MergeKey(v[i])))
                  IN  v[i].entity_id = IF Len(ids) = 1 THEN StrId(ids[1])
                                       ELSE IF Len(ids) > 1 THEN ListId(ids)
                                       ELSE NoneId

\* C34 case: three actions of two keys; the first key's members name
\* light.b and light.a as a list and light.a again as a scalar, and the
\* output holds that key's action first, with the two ids once each.
TwoKeysMergedInOrder ==
    /\ fin.fn = "merge_actions" /\ fout.n >= 1
    /\ Len(fin.as) = 3 /\ Len(fout.v) = 2
    /\ fin.as[1].entity_id = ListId(<<"light.b", "light.a">>)
    /\ fin.as[2].service = "turn_on"
    /\ fin.as[3].entity_id = StrId("light.a")
    /\ MergeKey(fin.as[3]) = MergeKey(fin.as[1])
    /\ fout.v[1].entity_id = ListId(<<"light.b", "light.a">>)
    /\ fout.v[2].entity_id = StrId("light.a")

\* C35: the response cache evicts strictly least recently used entries: a
\* hit of _cache_get and a _cache_put make the key the most recently used,
\* the entries are kept in the order of their last put or hit, and an entry
\* that a put removes was last put or hit before every entry that stays.
EvictsLeastRecentlyUsed ==
    [][ fin.fn = "lru" =>
          /\ \A i \in 1..(Len(cache') - 1) :
                LastUse(fin'.used, cache'[i].key) < LastUse(fin'.used, cache'[i + 1].key)
          /\ fin'.used # fin.used =>
                LastUse(fin'.used, cache'[Len(cache')].key) = fin'.fresh + fin'.touches
          /\ \A i \in 1..Len(cache) :
                CacheIndex(cache', cache[i].key) = 0 =>
                    \A j \in 1..Len(cache') :
                        LastUse(fin.used, cache[i].key) < LastUse(fin'.used, cache'[j].key)
      ]_vars

\* C35 case: the first key put was hit or put again before the cache
\* overflowed; it is kept, and the second key put has been evicted.
SecondOldestEvicted ==
    /\ fin.fn = "lru"
    /\ fin.fresh > 50 /\ fin.touches = 1
    /\ CacheIndex(cache, KeyOf(1)) # 0
    /\ CacheIndex(cache, KeyOf(2)) = 0

\* C36: _cache_key is deterministic and does not depend on the case of the
\* letters or on blanks around the text: two texts that are equal once
\* put in lower case and trimmed have the same key under the same model
\* name and config fingerprint.
KeyIgnoresCaseAndBlanks ==
    (fin.fn = "_cache_key" /\ fout # NoFn) =>
        /\ fout.again = fout.k1
        /\ Strip(Lower(fin.t1)) = Strip(Lower(fin.t2)) => fout.k1 = fout.k2

\* C36 case: "Oo " and "\toO" differ in case and in the blanks around
\* them, and have one key.
SameKeyForVariants ==
    /\ fin.fn = "_cache_key" /\ fout # NoFn
    /\ fin.t1 = <<"O", "o", " ">>
    /\ fin.t2 = <<"\t", "o", "O">>
    /\ fout.k1 = fout.k2

\* C37: a run on the audio path always calls the planner and leaves the
\* response cache as it is: a run with valid audio starts by awaiting the
\* planner, its reply is never a cache hit, and no step of an audio run,
\* from its start to its log entry, changes the cache.
AudioRunLeavesCache ==
    [][ /\ (pc = "idle" /\ pc' # "idle" /\ path' = "audio") =>
              /\ cache' = cache
              /\ \/ pc' = "planning" /\ log' = <<>>
                 \/ pc' = "logging" /\ log'[1].error # ""
        /\ (pc # "idle" /\ path = "audio") =>
              /\ cache' = cache
              /\ ~cache_hit'
              /\ pc' \in {"exec", "logging"} => pc \in {"planning", "exec"}
      ]_vars

\* C37 case: a text run has stored its plan; the run after it, on the
\* audio path, got a plan with actions from the planner and has executed
\* it, with the stored entry still in the cache.
AudioRunAfterStoredPlan ==
    /\ fin = NoFn
    /\ runs = 2 /\ path = "audio" /\ pc = "logging"
    /\ log[1].error = "" /\ reply.actions # <<>> /\ backend # <<>>
    /\ Len(cache) = 1

\* C38: audio that is empty, larger than the maximum size or of a format
\* outside the supported ones is rejected before any network call: the
\* planner is not awaited, no backend call is made, and the run ends with
\* the error in its log entry.
InvalidAudioRejected ==
    ( /\ fin.fn = "audio"
      /\ \/ fin.r.size = 0
         \/ fin.r.size > 15 * 1024 * 1024
         \/ Lower(LStripDots(IF fin.r.fmt = <<>> THEN <<"w", "a", "v">> ELSE fin.r.fmt))
                \notin {<<"w", "a", "v">>, <<"m", "p", "3">>, <<"f", "l", "a", "c">>,
                        <<"o", "p", "u", "s">>, <<"p", "c", "m", "1", "6">>,
                        <<"w", "e", "b", "m">>, <<"o", "g", "g">>} ) =>
        /\ pc \in {"idle", "logging"}
        /\ backend = <<>> /\ reply = NoPlan
        /\ pc = "logging" => (Len(log) = 1 /\ log[1].error # "" /\ log[1].execution = <<>>)

\* C38 case: a run with audio of one byte more than the maximum, in a
\* supported format, has ended with the error of the size check.
OversizedAudioRejected ==
    /\ fin.fn = "audio"
    /\ fin.r.size = MAX_AUDIO_SIZE + 1
    /\ fin.r.fmt = <<"m", "p", "3">>
    /\ pc = "logging" /\ runs = 1
    /\ log[1].error = "Audio file too large"

\* C39: provided every planner call and every backend call returns, every
\* started run ends, and on every path to its end (no credential,
\* unsupported model, an exception of the planner or of the audio
\* validation, normal completion) exactly one log entry is handed to the
\* logger before call_model_wrapper returns.
EveryRunEndsLogged ==
    (fin.fn = "live" /\ pc # "idle") ~> (pc = "logging" /\ Len(log) = 1)

====
